---- MODULE Spec2Model ----
(***************************************************************************)
(* SafeWeave gateway: the router (scanAll / scanWith over one ScannerClient *)
(* per enabled backend), the finding deduplication it applies to a merged  *)
(* result, the profile manager's active-profile selection and custom       *)
(* profile loading, the license client and its cache, the entry point,     *)
(* the HTTP bridge (POST /api/scan and the SSE session registry), the tool *)
(* server's tools, resources and prompts with its findings cache and       *)
(* security score, and the scanner adapters around trivy and nuclei.       *)
(*                                                                         *)
(* Strings are TLA+ strings and template literals are string               *)
(* concatenations, so two findings whose rendered keys coincide are the    *)
(* same key here exactly when they are the same key in the program.        *)
(***************************************************************************)
EXTENDS Integers, Sequences, FiniteSets, TLC

VARIABLES
    \* ---- Router (packages/gateway/src/router/index.ts)
    clients,        \* names of the enabled backends, in Map insertion order
    pc,             \* position of the one request in flight
    req,            \* that request: which Router method, and its argument
    dispatched,     \* names that scanAll / scanWith issued a fetch to, in order
    call,           \* per backend: state of the ScannerClient.scan promise
    resp,           \* per backend: what the backend answered (environment)
    settled,        \* per backend: value ScannerClient.scan resolved to
    completed,      \* names whose scan promise has settled, in settling order
                    \* (kept where the settling order is observed: OrderSpec)
    result,         \* value the Router method returned
    \* ---- deduplicateFindings applied to an accumulated list
    allFindings,    \* the list being accumulated (push) and then filtered
    dPc,            \* position in the accumulate / filter / re-filter run
    dOut,           \* deduplicateFindings(allFindings)
    dTwice,         \* deduplicateFindings(dOut)
    dDouble,        \* deduplicateFindings(allFindings ++ allFindings)
    \* ---- ProfileManager (packages/gateway/src/profiles/index.ts)
    profileKeys,    \* own keys of this.profiles, in insertion order
    activeProfile,  \* this.activeProfile
    pmLast,         \* the last ProfileManager call and what it gave
    profiles,       \* this.profiles: the profile registered under each own key
    loadLast,       \* the last loadCustomProfile call and what it gave
    \* ---- LicenseClient (packages/gateway/src/license.ts)
    now,            \* Date.now()
    licCache,       \* this.cache: per key, the stored verdict and its expiry
    vcall,          \* per caller: position of its validate call, and its result
    verdictAt,      \* per key: when the server last answered with a valid verdict
    lastVerdict,    \* per key: the verdict validate returned last
    \* ---- entry point and HTTP bridge (index.ts, http-bridge.ts)
    licenseKey,     \* LICENSE_KEY, from the environment
    isTTY,          \* process.stdin.isTTY
    mainPc,         \* position of main()
    mainValidation, \* what main's validate call gave
    bridgeUp,       \* startHttpBridge was called
    stdioUp,        \* startServer was called
    rest,           \* the POST /api/scan request being served
    usage,          \* the usage report of that request
    \* ---- SSE sessions of the HTTP bridge, and their servers
    sseTransports,  \* keys of the sseTransports map
    sess,           \* per session id: where its connection stands
    managers,       \* per ProfileManager instance: its activeProfile
    selected,       \* the last set_profile that succeeded, and where
    post,           \* the last POST /messages and what came of it
    \* ---- the MCP server of one session (packages/gateway/src/server.ts)
    lastFindings,   \* the lastFindings list of createServer
    tcall,          \* per request slot: the tool call suspended at its await
    tout,           \* the last answer a tool, resource or prompt request got
    \* ---- a scanner backend's adapter around its external tool
    adapter         \* the adapter call being followed

routerVars == <<clients, pc, req, dispatched, call, resp, settled, completed, result>>
dedupVars == <<allFindings, dPc, dOut, dTwice, dDouble>>
profileVars == <<profileKeys, activeProfile, pmLast>>
customVars == <<profiles, loadLast>>
licenseVars == <<now, licCache, vcall, verdictAt, lastVerdict>>
bridgeVars == <<licenseKey, isTTY, mainPc, mainValidation, bridgeUp, stdioUp, rest, usage>>
sessionVars == <<sseTransports, sess, managers, selected, post>>
toolVars == <<lastFindings, tcall, tout>>
adapterVars == <<adapter>>
vars == <<routerVars, dedupVars, profileVars, customVars, licenseVars, bridgeVars, sessionVars,
          toolVars, adapterVars>>

(***************************************************************************)
(* Bounds of the model.                                                    *)
(***************************************************************************)
\* longest findings list handed to deduplicateFindings
MaxLen == 3
\* how many entries of the configuration's scanners table are kept
NumScanners == 3
\* clock ticks the license client is followed for
MaxTicks == 3
\* longest lastFindings list with which a tool call still starts a scan
MaxCache == 3

(***************************************************************************)
(* Findings.  Only the fields the gateway reads are kept: file, line, cwe  *)
(* and title.  An absent optional line is <<>>, a present one <<n>>; an    *)
(* absent cwe is "" (undefined and "" are both falsy in `f.cwe || ...`).   *)
(***************************************************************************)
Files == {"a", "a:1"}
Lines == {<<>>, <<1>>}
Cwes == {"", "x"}
Titles == {"x", "1:x"}
Finding == [file : Files, line : Lines, cwe : Cwes, title : Titles]

\* `${f.line}` : a number prints in decimal, undefined prints "undefined"
LineStr(line) == IF line = <<>> THEN "undefined" ELSE ToString(line[1])

\* f.cwe || f.title
CweOrTitle(f) == IF f.cwe # "" THEN f.cwe ELSE f.title

\* `${f.file}:${f.line}:${f.cwe || f.title}`
FindingKey(f) == f.file \o ":" \o LineStr(f.line) \o ":" \o CweOrTitle(f)

RECURSIVE FilterUnseen(_, _, _)
FilterUnseen(findings, i, seen) ==
    IF i > Len(findings) THEN <<>>
    ELSE LET key == FindingKey(findings[i])
         IN  IF key \in seen
             THEN FilterUnseen(findings, i + 1, seen)
             ELSE <<findings[i]>> \o FilterUnseen(findings, i + 1, seen \cup {key})

\* mutant: only the key of the finding just before is remembered
RECURSIVE FilterRepeats(_, _)
FilterRepeats(findings, i) ==
    IF i > Len(findings) THEN <<>>
    ELSE IF i > 1 /\ FindingKey(findings[i]) = FindingKey(findings[i - 1])
         THEN FilterRepeats(findings, i + 1)
         ELSE <<findings[i]>> \o FilterRepeats(findings, i + 1)

DeduplicateAdjacent(findings) == FilterRepeats(findings, 1)

\* deduplicateFindings
DeduplicateFindings(findings) == FilterUnseen(findings, 1, {})


(***************************************************************************)
(* Configuration and backends.                                             *)
(***************************************************************************)
\* DEFAULT_CONFIG.scanners in key order: the order Object.entries gives the
\* Router constructor when no project config file replaces the table.
ConfigOrder == <<"sast", "deps", "secrets", "iac", "container", "dast", "license">>

\* the part of the table the model keeps
ScannerSeq == SubSeq(ConfigOrder, 1, IF NumScanners < Len(ConfigOrder) THEN NumScanners ELSE Len(ConfigOrder))
ScannerNames == {ScannerSeq[i] : i \in 1..Len(ScannerSeq)}

\* names a caller may pass: a configured backend or one that is not
CallerNames == ScannerNames \cup {"nonexistent"}

Range(s) == {s[i] : i \in 1..Len(s)}

\* Router constructor: one client per enabled scanner, in table order
RouterClients(enabled) == SelectSeq(ScannerSeq, LAMBDA n : n \in enabled)

(***************************************************************************)
(* Values.  A JavaScript value that may be a ScanResult is a record with a *)
(* shape: "scanresult" has findings and metadata, "nofindings" is an       *)
(* object without a findings list, "nometadata" an object without          *)
(* metadata, "null" the JSON value null, "none" no value at all.           *)
(* warnings = <<>> stands for an absent (or empty) warnings list.          *)
(* metadata.timestamp and metadata.files_scanned are left out: the gateway *)
(* writes them and reads neither.                                          *)
(***************************************************************************)
NoValue ==
    [shape |-> "none", findings |-> <<>>, scanner |-> "", version |-> "",
     duration_ms |-> 0, warnings |-> <<>>]

\* three findings a backend may report: F2 has F1's file, line and cwe but
\* another title; F3 has no line
F1 == [file |-> "a", line |-> <<1>>, cwe |-> "x", title |-> "x"]
F2 == [file |-> "a", line |-> <<1>>, cwe |-> "x", title |-> "1:x"]
F3 == [file |-> "a", line |-> <<>>, cwe |-> "x", title |-> "x"]
ReportedLists == {<<>>, <<F1>>, <<F2, F1>>, <<F3>>}

\* a backend's own warnings in a 200 answer (deps: one per failed auditor)
OwnWarnings == {<<>>, <<"npm audit failed: spawn npm ENOENT">>}

\* bodies a backend may send with status 200 that parse as JSON
JsonBodies(b) ==
    {[shape |-> "scanresult", findings |-> fs, scanner |-> b, version |-> "0.1.0",
      duration_ms |-> 5, warnings |-> ws] : fs \in ReportedLists, ws \in OwnWarnings}
    \cup {[NoValue EXCEPT !.shape = "null"]}
    \cup {[NoValue EXCEPT !.shape = "nofindings", !.scanner = b, !.version = "0.1.0"]}
    \cup {[NoValue EXCEPT !.shape = "nometadata", !.findings = <<F1>>]}

\* what the gateway's fetch can observe of one backend
NoResponse == [kind |-> "none", status |-> 0, json |-> FALSE, body |-> NoValue]
Responses(b) ==
    {[kind |-> "neterr", status |-> 0, json |-> FALSE, body |-> NoValue]}
    \cup {[kind |-> "http", status |-> 500, json |-> TRUE, body |-> NoValue]}
    \cup {[kind |-> "http", status |-> 200, json |-> FALSE, body |-> NoValue]}
    \cup {[kind |-> "http", status |-> 200, json |-> TRUE, body |-> x] : x \in JsonBodies(b)}

\* response.ok
ResponseOk(r) == r.status >= 200 /\ r.status <= 299

(***************************************************************************)
(* ScannerClient.scan                                                      *)
(***************************************************************************)
\* the catch branch's return value
Degraded(name, message) ==
    [shape |-> "scanresult", findings |-> <<>>, scanner |-> name, version |-> "0.0.0",
     duration_ms |-> 0,
     warnings |-> <<"Scanner '" \o name \o "' unavailable: " \o message>>]

\* err.message of what the try block can throw
FetchFailed == "fetch failed"
NotOkMessage(name, r) == "Scanner " \o name \o " returned " \o ToString(r.status)
JsonSyntaxError == "Unexpected token < in JSON at position 0"

\* mutant: response.json() returned without await, so its rejection escapes
\* the try block and scan rejects with no value
ScannerClientScanNoAwait(name, r) ==
    IF r.kind = "neterr" THEN Degraded(name, FetchFailed)
    ELSE IF ~ResponseOk(r) THEN Degraded(name, NotOkMessage(name, r))
    ELSE IF ~r.json THEN NoValue
    ELSE r.body

\* the value scan resolves to, for each thing fetch can observe
ScannerClientScan(name, r) ==
    IF r.kind = "neterr" THEN Degraded(name, FetchFailed)
    ELSE IF ~ResponseOk(r) THEN Degraded(name, NotOkMessage(name, r))
    ELSE IF ~r.json THEN Degraded(name, JsonSyntaxError)
    ELSE r.body


(***************************************************************************)
(* Router                                                                  *)
(***************************************************************************)
\* requestedScanners: omitted, or a set of names
NoRequested == [given |-> FALSE, names |-> {}]
RequestedChoices == {NoRequested} \cup {[given |-> TRUE, names |-> S] : S \in SUBSET CallerNames}

\* .filter(([name]) => !requestedScanners || requestedScanners.has(name))
Selected(cl, requested) ==
    SelectSeq(cl, LAMBDA n : ~requested.given \/ n \in requested.names)

\* mutant: Promise.race / Promise.any instead of Promise.allSettled
AnySettled(names, c) ==
    names = <<>> \/ \E b \in Range(names) : c[b] \in {"fulfilled", "rejected"}

\* await Promise.allSettled(promises)
AllSettled(names, c) == \A b \in Range(names) : c[b] \in {"fulfilled", "rejected"}

\* mutant: the values are taken in the order in which the promises settled
FulfilledValuesAsCompleted(names, c, s) ==
    LET ok == SelectSeq(completed, LAMBDA b : c[b] = "fulfilled")
    IN  [i \in 1..Len(ok) |-> s[ok[i]]]

\* the values of the fulfilled promises, in the order of the promises array
FulfilledValues(names, c, s) ==
    LET ok == SelectSeq(names, LAMBDA b : c[b] = "fulfilled")
    IN  [i \in 1..Len(ok) |-> s[ok[i]]]

RECURSIVE ConcatFindings(_)
ConcatFindings(values) ==
    IF values = <<>> THEN <<>>
    ELSE Head(values).findings \o ConcatFindings(Tail(values))

RECURSIVE ConcatWarnings(_)
ConcatWarnings(values) ==
    IF values = <<>> THEN <<>>
    ELSE Head(values).warnings \o ConcatWarnings(Tail(values))

\* the merge loop throws a TypeError when it spreads a findings list that is
\* not there or reads .warnings of a metadata that is not there
MergeThrows(values) == \E i \in 1..Len(values) : values[i].shape # "scanresult"

\* mutant: the warnings of the backends are not carried into the result
ScanAllResultNoWarnings(values, duration) ==
    [shape |-> "scanresult", findings |-> DeduplicateFindings(ConcatFindings(values)),
     scanner |-> "safeweave-gateway", version |-> "0.1.0", duration_ms |-> duration,
     warnings |-> <<>>]

\* scanAll's return value
ScanAllResult(values, duration) ==
    [shape |-> "scanresult", findings |-> DeduplicateFindings(ConcatFindings(values)),
     scanner |-> "safeweave-gateway", version |-> "0.1.0", duration_ms |-> duration,
     warnings |-> ConcatWarnings(values)]

\* Date.now() - start, as far as the model tells durations apart
Durations == {0, 5}

\* scanWith's return value when the name has no client
NoClientResult(scannerName) ==
    [shape |-> "scanresult", findings |-> <<>>, scanner |-> scannerName,
     version |-> "0.0.0", duration_ms |-> 0, warnings |-> <<>>]

\* mutant: scanWith wraps the client's result the way scanAll does
ScanWithResultMerged(value) ==
    IF value.shape # "scanresult" THEN value
    ELSE ScanAllResult(<<value>>, value.duration_ms)

\* scanWith's return value when the name has a client: the client's value
ScanWithResult(value) == value

NoCalls == [b \in ScannerNames |-> "none"]
NoResponses == [b \in ScannerNames |-> NoResponse]
NoValues == [b \in ScannerNames |-> NoValue]
NoRequest == [kind |-> "none", name |-> ""]

RouterInit(enabledSets) ==
    /\ \E enabled \in enabledSets : clients = RouterClients(enabled)
    /\ pc = "idle"
    /\ req = NoRequest
    /\ dispatched = <<>>
    /\ call = NoCalls
    /\ resp = NoResponses
    /\ settled = NoValues
    /\ completed = <<>>
    /\ result = NoValue

\* scanAll up to its await: every selected client's scan is started, and each
\* runs up to its fetch, before scanAll suspends
ScanAllStart(requested) ==
    /\ pc = "idle"
    /\ req' = [kind |-> "scanAll", name |-> ""]
    /\ dispatched' = Selected(clients, requested)
    /\ call' = [b \in ScannerNames |-> IF b \in Range(dispatched') THEN "pending" ELSE "none"]
    /\ pc' = "waiting"
    /\ UNCHANGED <<clients, resp, settled, completed, result>>

ScanAllCall(requested) ==
    /\ ScanAllStart(requested)
    /\ UNCHANGED <<dedupVars, profileVars, customVars, licenseVars, bridgeVars, sessionVars,
                   toolVars, adapterVars>>

\* one of the answers rs reaches b's pending fetch, and scan runs to its return
BackendSettles(b, rs) ==
    /\ call[b] = "pending"
    /\ \E r \in rs :
          LET v == ScannerClientScan(b, r)
          IN  /\ resp' = [resp EXCEPT ![b] = r]
              /\ settled' = [settled EXCEPT ![b] = v]
              /\ call' = [call EXCEPT ![b] = IF v.shape = "none" THEN "rejected" ELSE "fulfilled"]
    /\ UNCHANGED <<clients, pc, req, dispatched, result>>

\* a backend's answer reaches its pending fetch, and scan runs to its return
BackendResponds(b) ==
    /\ BackendSettles(b, Responses(b))
    /\ UNCHANGED completed
    /\ UNCHANGED <<dedupVars, profileVars, customVars, licenseVars, bridgeVars, sessionVars,
                   toolVars, adapterVars>>

\* the answers after which scanAll's merge returns a result: the fetch fails,
\* or the backend sends a ScanResult
OrderResponses(b) ==
    {r \in Responses(b) : r.kind = "neterr" \/ (r.status = 200 /\ r.json /\ r.body.shape = "scanresult")}

\* the same step, with the order in which the promises settle kept
BackendCompletes(b) ==
    /\ BackendSettles(b, OrderResponses(b))
    /\ completed' = Append(completed, b)
    /\ UNCHANGED <<dedupVars, profileVars, customVars, licenseVars, bridgeVars, sessionVars,
                   toolVars, adapterVars>>

\* a backend accepts the request and never answers it
BackendStalls(b) ==
    /\ call[b] = "pending"
    /\ call' = [call EXCEPT ![b] = "stalled"]
    /\ UNCHANGED <<clients, pc, req, dispatched, resp, settled, completed, result>>
    /\ UNCHANGED <<dedupVars, profileVars, customVars, licenseVars, bridgeVars, sessionVars,
                   toolVars, adapterVars>>

\* scanAll from the await on: the merge loop and the return
ScanAllMerge ==
    /\ pc = "waiting"
    /\ req.kind = "scanAll"
    /\ AllSettled(dispatched, call)
    /\ LET values == FulfilledValues(dispatched, call, settled)
       IN  IF MergeThrows(values)
           THEN pc' = "threw" /\ result' = NoValue
           ELSE pc' = "returned" /\ \E d \in Durations : result' = ScanAllResult(values, d)
    /\ UNCHANGED <<clients, req, dispatched, call, resp, settled, completed>>
    /\ UNCHANGED <<dedupVars, profileVars, customVars, licenseVars, bridgeVars, sessionVars,
                   toolVars, adapterVars>>

\* scanWith: no client, immediate empty result; else start that client's scan
ScanWithCall(scannerName) ==
    /\ pc = "idle"
    /\ req' = [kind |-> "scanWith", name |-> scannerName]
    /\ IF scannerName \in Range(clients)
       THEN /\ dispatched' = <<scannerName>>
            /\ call' = [call EXCEPT ![scannerName] = "pending"]
            /\ pc' = "waiting"
            /\ result' = result
       ELSE /\ dispatched' = <<>>
            /\ call' = call
            /\ pc' = "returned"
            /\ result' = NoClientResult(scannerName)
    /\ UNCHANGED <<clients, resp, settled, completed>>
    /\ UNCHANGED <<dedupVars, profileVars, customVars, licenseVars, bridgeVars, sessionVars,
                   toolVars, adapterVars>>

\* scanWith resolves with what its client's scan settled to
ScanWithReturn ==
    /\ pc = "waiting"
    /\ req.kind = "scanWith"
    /\ call[req.name] \in {"fulfilled", "rejected"}
    /\ IF call[req.name] = "rejected"
       THEN pc' = "threw" /\ result' = NoValue
       ELSE pc' = "returned" /\ result' = ScanWithResult(settled[req.name])
    /\ UNCHANGED <<clients, req, dispatched, call, resp, settled, completed>>
    /\ UNCHANGED <<dedupVars, profileVars, customVars, licenseVars, bridgeVars, sessionVars,
                   toolVars, adapterVars>>

\* the caller has its answer; the next request may start
RouterReset ==
    /\ pc \in {"returned", "threw"}
    /\ pc' = "idle"
    /\ req' = NoRequest
    /\ dispatched' = <<>>
    /\ call' = NoCalls
    /\ resp' = NoResponses
    /\ settled' = NoValues
    /\ completed' = <<>>
    /\ result' = NoValue
    /\ UNCHANGED clients

RequestDone ==
    /\ RouterReset
    /\ UNCHANGED <<dedupVars, profileVars, customVars, licenseVars, bridgeVars, sessionVars,
                   toolVars, adapterVars>>

RouterNext ==
    \/ \E requested \in RequestedChoices : ScanAllCall(requested)
    \/ \E b \in ScannerNames : BackendResponds(b)
    \/ \E b \in ScannerNames : BackendStalls(b)
    \/ ScanAllMerge
    \/ \E n \in CallerNames : ScanWithCall(n)
    \/ ScanWithReturn
    \/ RequestDone

\* scanAll alone, with the settling order of its backends kept
OrderNext ==
    \/ \E requested \in RequestedChoices : ScanAllCall(requested)
    \/ \E b \in ScannerNames : BackendCompletes(b)
    \/ ScanAllMerge
    \/ RequestDone


(***************************************************************************)
(* deduplicateFindings on an accumulated list                              *)
(***************************************************************************)
DedupInit ==
    /\ allFindings = <<>>
    /\ dPc = "collect"
    /\ dOut = <<>>
    /\ dTwice = <<>>
    /\ dDouble = <<>>

\* allFindings.push(f)
PushFinding(f) ==
    /\ dPc = "collect"
    /\ Len(allFindings) < MaxLen
    /\ allFindings' = Append(allFindings, f)
    /\ UNCHANGED <<dPc, dOut, dTwice, dDouble>>
    /\ UNCHANGED <<routerVars, profileVars, customVars, licenseVars, bridgeVars, sessionVars,
                   toolVars, adapterVars>>

\* deduplicateFindings(allFindings)
Deduplicate ==
    /\ dPc = "collect"
    /\ dOut' = DeduplicateFindings(allFindings)
    /\ dPc' = "deduped"
    /\ UNCHANGED <<allFindings, dTwice, dDouble>>
    /\ UNCHANGED <<routerVars, profileVars, customVars, licenseVars, bridgeVars, sessionVars,
                   toolVars, adapterVars>>

\* deduplicateFindings on its own output, and on the list followed by itself
DeduplicateAgain ==
    /\ dPc = "deduped"
    /\ dTwice' = DeduplicateFindings(dOut)
    /\ dDouble' = DeduplicateFindings(allFindings \o allFindings)
    /\ dPc' = "again"
    /\ UNCHANGED <<allFindings, dOut>>
    /\ UNCHANGED <<routerVars, profileVars, customVars, licenseVars, bridgeVars, sessionVars,
                   toolVars, adapterVars>>

DedupNext ==
    \/ \E f \in Finding : PushFinding(f)
    \/ Deduplicate
    \/ DeduplicateAgain

(***************************************************************************)
(* ProfileManager                                                          *)
(***************************************************************************)
\* keys of BUILT_IN_PROFILES, in order
BuiltInNames == <<"standard", "hardened", "owasp", "soc2", "pci-dss", "hipaa">>

\* this.profiles is a plain object: a property read that finds no own key
\* goes on to Object.prototype, where these names (among others) are found
ObjectPrototypeKeys == {"constructor", "toString", "__proto__"}

\* names a caller may pass to the manager
ProfileArgs == Range(BuiltInNames) \cup {"custom", "nonexistent"} \cup ObjectPrototypeKeys

Undefined == [kind |-> "undefined", name |-> ""]

\* this.profiles[name]
ProfileLookup(keys, name) ==
    IF name \in Range(keys) THEN [kind |-> "profile", name |-> name]
    ELSE IF name \in ObjectPrototypeKeys THEN [kind |-> "inherited", name |-> name]
    ELSE Undefined

\* JavaScript truthiness of a looked-up value
Truthy(v) == v.kind # "undefined"

\* Object.keys(this.profiles)
ListProfiles(keys) == keys

RECURSIVE Join(_, _)
Join(strs, sep) ==
    IF strs = <<>> THEN ""
    ELSE IF Len(strs) = 1 THEN strs[1]
    ELSE strs[1] \o sep \o Join(Tail(strs), sep)

UnknownProfileMessage(keys, name) ==
    "Unknown profile: " \o name \o ". Available: " \o Join(ListProfiles(keys), ", ")

NoPmCall ==
    [op |-> "none", arg |-> "", threw |-> FALSE, message |-> "", value |-> Undefined,
     before |-> Undefined, keys |-> <<>>]

ProfileInit ==
    /\ profileKeys = BuiltInNames
    /\ activeProfile = "standard"
    /\ pmLast = NoPmCall

\* getActive()
GetActiveValue(keys, active) == ProfileLookup(keys, active)

GetActive ==
    /\ pmLast' = [NoPmCall EXCEPT !.op = "getActive",
                                  !.value = GetActiveValue(profileKeys, activeProfile)]
    /\ UNCHANGED <<profileKeys, activeProfile>>
    /\ UNCHANGED <<routerVars, dedupVars, customVars, licenseVars, bridgeVars, sessionVars,
                   toolVars, adapterVars>>

\* setActive(name)
SetActive(name) ==
    /\ IF ~Truthy(ProfileLookup(profileKeys, name))
       THEN /\ pmLast' = [NoPmCall EXCEPT !.op = "setActive", !.arg = name, !.threw = TRUE,
                             !.message = UnknownProfileMessage(profileKeys, name),
                             !.before = GetActiveValue(profileKeys, activeProfile)]
            /\ activeProfile' = activeProfile
       ELSE /\ pmLast' = [NoPmCall EXCEPT !.op = "setActive", !.arg = name,
                             !.before = GetActiveValue(profileKeys, activeProfile)]
            /\ activeProfile' = name
    /\ UNCHANGED profileKeys
    /\ UNCHANGED <<routerVars, dedupVars, customVars, licenseVars, bridgeVars, sessionVars,
                   toolVars, adapterVars>>

\* listProfiles()
ListProfilesCall ==
    /\ pmLast' = [NoPmCall EXCEPT !.op = "listProfiles", !.keys = ListProfiles(profileKeys)]
    /\ UNCHANGED <<profileKeys, activeProfile>>
    /\ UNCHANGED <<routerVars, dedupVars, customVars, licenseVars, bridgeVars, sessionVars,
                   toolVars, adapterVars>>

\* getProfile(name)
GetProfile(name) ==
    /\ pmLast' = [NoPmCall EXCEPT !.op = "getProfile", !.arg = name,
                                  !.value = ProfileLookup(profileKeys, name)]
    /\ UNCHANGED <<profileKeys, activeProfile>>
    /\ UNCHANGED <<routerVars, dedupVars, customVars, licenseVars, bridgeVars, sessionVars,
                   toolVars, adapterVars>>

ProfileNext ==
    \/ GetActive
    \/ \E name \in ProfileArgs : SetActive(name)
    \/ ListProfilesCall
    \/ \E name \in ProfileArgs : GetProfile(name)

(***************************************************************************)
(* Profile contents and loadCustomProfile                                  *)
(*                                                                         *)
(* A parsed YAML / profile value is a tree: a plain object with its own    *)
(* keys, an array, or a scalar.  deepMerge never looks inside an array or  *)
(* a scalar, so those carry their JSON rendering.                          *)
(***************************************************************************)
Val(s) == [t |-> "val", kids |-> <<>>, leaf |-> s]
Arr(s) == [t |-> "arr", kids |-> <<>>, leaf |-> s]
Obj(f) == [t |-> "obj", kids |-> f, leaf |-> ""]
EmptyObj == Obj(<<>>)

\* srcVal && typeof srcVal === 'object' && !Array.isArray(srcVal)
IsPlainObject(v) == v.t = "obj"

Has(o, k) == k \in DOMAIN o.kids

\* BUILT_IN_PROFILES
StandardProfile ==
    Obj([name |-> Val("standard"),
         version |-> Val("1.0"),
         description |-> Val("Standard security profile"),
         severity_thresholds |-> Obj([error |-> Val("high"), warn |-> Val("medium")]),
         rules |-> Obj([
            sast |-> Obj([enabled |-> Val("true"), rulesets |-> Arr("owasp-top-10")]),
            dependencies |-> Obj([enabled |-> Val("true"), max_cvss_score |-> Val("7"),
                                  require_lockfile |-> Val("true")]),
            secrets |-> Obj([enabled |-> Val("true")])])])

HardenedProfile ==
    Obj([name |-> Val("hardened"),
         version |-> Val("1.0"),
         description |-> Val("Hardened security profile"),
         severity_thresholds |-> Obj([error |-> Val("medium"), warn |-> Val("low")]),
         rules |-> Obj([
            sast |-> Obj([enabled |-> Val("true"),
                          rulesets |-> Arr("owasp-top-10,crypto-best-practices,auth-best-practices"),
                          custom_rules |-> Arr("enforce-tls-1.2-minimum,no-eval,no-dynamic-require")]),
            dependencies |-> Obj([enabled |-> Val("true"), max_cvss_score |-> Val("4"),
                                  blocked_licenses |-> Arr("AGPL-3.0"),
                                  require_lockfile |-> Val("true")]),
            secrets |-> Obj([enabled |-> Val("true")])])])

OwaspProfile ==
    Obj([name |-> Val("owasp"),
         version |-> Val("1.0"),
         description |-> Val("OWASP Top 10 focused profile"),
         severity_thresholds |-> Obj([error |-> Val("high"), warn |-> Val("medium")]),
         rules |-> Obj([
            sast |-> Obj([enabled |-> Val("true"),
                          rulesets |-> Arr("owasp-top-10,injection,xss,ssrf,broken-access-control"),
                          custom_rules |-> Arr("no-eval,no-innerHTML,enforce-parameterized-queries")]),
            dependencies |-> Obj([enabled |-> Val("true"), max_cvss_score |-> Val("7"),
                                  require_lockfile |-> Val("true")]),
            secrets |-> Obj([enabled |-> Val("true")]),
            iac |-> Obj([enabled |-> Val("true")]),
            dast |-> Obj([enabled |-> Val("true"),
                          checks |-> Arr("sql-injection,xss-reflected,xss-stored,ssrf,open-redirect")])])])

Soc2Profile ==
    Obj([name |-> Val("soc2"),
         version |-> Val("1.0"),
         description |-> Val("SOC 2 Type II compliance profile"),
         severity_thresholds |-> Obj([error |-> Val("medium"), warn |-> Val("low")]),
         rules |-> Obj([
            sast |-> Obj([enabled |-> Val("true"),
                          rulesets |-> Arr("owasp-top-10,auth-best-practices,crypto-best-practices"),
                          custom_rules |-> Arr("enforce-tls-1.2-minimum,require-audit-logging,enforce-session-timeout,no-hardcoded-credentials")]),
            dependencies |-> Obj([enabled |-> Val("true"), max_cvss_score |-> Val("5"),
                                  require_lockfile |-> Val("true")]),
            secrets |-> Obj([enabled |-> Val("true")]),
            container |-> Obj([enabled |-> Val("true"), require_non_root |-> Val("true")]),
            iac |-> Obj([enabled |-> Val("true")])])])

PciDssProfile ==
    Obj([name |-> Val("pci-dss"),
         version |-> Val("1.0"),
         description |-> Val("PCI DSS v4.0 compliance profile"),
         severity_thresholds |-> Obj([error |-> Val("medium"), warn |-> Val("low")]),
         rules |-> Obj([
            sast |-> Obj([enabled |-> Val("true"),
                          rulesets |-> Arr("owasp-top-10,crypto-best-practices,auth-best-practices"),
                          custom_rules |-> Arr("enforce-tls-1.2-minimum,no-weak-ciphers,no-plaintext-pan,enforce-input-validation,require-audit-logging,enforce-session-timeout")]),
            dependencies |-> Obj([enabled |-> Val("true"), max_cvss_score |-> Val("4"),
                                  blocked_licenses |-> Arr("AGPL-3.0"),
                                  require_lockfile |-> Val("true")]),
            secrets |-> Obj([enabled |-> Val("true")]),
            container |-> Obj([enabled |-> Val("true"), require_non_root |-> Val("true"),
                               blocked_base_images |-> Arr("latest")]),
            iac |-> Obj([enabled |-> Val("true")])])])

HipaaProfile ==
    Obj([name |-> Val("hipaa"),
         version |-> Val("1.0"),
         description |-> Val("HIPAA Security Rule compliance profile"),
         severity_thresholds |-> Obj([error |-> Val("medium"), warn |-> Val("low")]),
         rules |-> Obj([
            sast |-> Obj([enabled |-> Val("true"),
                          rulesets |-> Arr("owasp-top-10,crypto-best-practices,auth-best-practices"),
                          custom_rules |-> Arr("enforce-tls-1.2-minimum,enforce-encryption-at-rest,no-phi-in-logs,require-audit-logging,enforce-access-control,enforce-session-timeout")]),
            dependencies |-> Obj([enabled |-> Val("true"), max_cvss_score |-> Val("4"),
                                  require_lockfile |-> Val("true")]),
            secrets |-> Obj([enabled |-> Val("true")]),
            container |-> Obj([enabled |-> Val("true"), require_non_root |-> Val("true")]),
            iac |-> Obj([enabled |-> Val("true")])])])

BuiltInProfiles ==
    [n \in Range(BuiltInNames) |->
        CASE n = "standard" -> StandardProfile
          [] n = "hardened" -> HardenedProfile
          [] n = "owasp" -> OwaspProfile
          [] n = "soc2" -> Soc2Profile
          [] n = "pci-dss" -> PciDssProfile
          [] n = "hipaa" -> HipaaProfile]

\* deepMerge(target, source), on plain objects
RECURSIVE DeepMerge(_, _)
DeepMerge(target, source) ==
    LET keys == DOMAIN source.kids \ {"extends"}
    IN  Obj([key \in DOMAIN target.kids \cup keys |->
                IF key \notin keys THEN target.kids[key]
                ELSE IF /\ IsPlainObject(source.kids[key])
                        /\ Has(target, key)
                        /\ IsPlainObject(target.kids[key])
                     THEN DeepMerge(target.kids[key], source.kids[key])
                     ELSE source.kids[key]])

\* result[key] = value on a plain object
SetKey(o, key, value) ==
    Obj([k \in DOMAIN o.kids \cup {key} |-> IF k = key THEN value ELSE o.kids[k]])

\* delete o[key]
DeleteKey(o, key) == Obj([k \in DOMAIN o.kids \ {key} |-> o.kids[k]])

\* the value this.profiles[name] as deepMerge sees it: a registered profile,
\* or a value inherited from Object.prototype, which has no own enumerable
\* keys
BaseValue(keys, profs, name) ==
    IF ProfileLookup(keys, name).kind = "profile" THEN profs[name] ELSE EmptyObj

\* the profile loadCustomProfile builds from its base and the parsed file
MergedProfile(base, parsed) ==
    DeleteKey(SetKey(DeepMerge(base, parsed), "name", Val("custom")), "extends")

\* this.profiles.custom = merged, on the key order
RegisterCustom(keys) == IF "custom" \in Range(keys) THEN keys ELSE Append(keys, "custom")

\* the override files a project may hold at .safeweave/profile.yaml: which
\* base they extend, and what they override
ExtendsChoices == {"", "standard", "hardened", "custom", "nonexistent", "constructor"}
OverrideBodies ==
    { <<>>,
      [rules |-> Obj([secrets |-> Obj([enabled |-> Val("false")])])],
      [name |-> Val("mine"), severity_thresholds |-> Obj([error |-> Val("low")])],
      [rules |-> Obj([sast |-> Obj([rulesets |-> Arr("mine")])])],
      [rules |-> Obj([iac |-> Obj([enabled |-> Val("true")])])],
      [rules |-> Val("null")],
      [rules |-> Obj([sast |-> Obj([extends |-> Val("strict")])])],
      [version |-> Obj([major |-> Val("2")])] }

\* the parsed file: the body, and an `extends` key when one is declared
ParsedFile(ext, body) ==
    IF ext = "" THEN Obj(body) ELSE SetKey(Obj(body), "extends", Val(ext))

NoFile == [exists |-> FALSE, yaml |-> EmptyObj]
ProfileFiles ==
    {NoFile} \cup {[exists |-> TRUE, yaml |-> ParsedFile(ext, body)] :
                        ext \in ExtendsChoices, body \in OverrideBodies}

\* parsed.extends
ExtendsOf(parsed) == IF Has(parsed, "extends") THEN parsed.kids["extends"].leaf ELSE ""

UnknownBaseMessage(ext) == "Unknown base profile: " \o ext

NoLoad == [outcome |-> "none", message |-> "", profile |-> EmptyObj]

CustomInit ==
    /\ profiles = BuiltInProfiles
    /\ loadLast = NoLoad

\* loadCustomProfile(projectDir), where the project holds `file`
LoadCustomProfile(file) ==
    /\ IF ~file.exists \/ ExtendsOf(file.yaml) = ""
       THEN /\ loadLast' = [NoLoad EXCEPT !.outcome = "null"]
            /\ UNCHANGED <<profiles, profileKeys>>
       ELSE IF ~Truthy(ProfileLookup(profileKeys, ExtendsOf(file.yaml)))
       THEN /\ loadLast' = [NoLoad EXCEPT !.outcome = "threw",
                                          !.message = UnknownBaseMessage(ExtendsOf(file.yaml))]
            /\ UNCHANGED <<profiles, profileKeys>>
       ELSE LET base == BaseValue(profileKeys, profiles, ExtendsOf(file.yaml))
                merged == MergedProfile(base, file.yaml)
            IN  /\ profiles' = [n \in DOMAIN profiles \cup {"custom"} |->
                                    IF n = "custom" THEN merged ELSE profiles[n]]
                /\ profileKeys' = RegisterCustom(profileKeys)
                /\ loadLast' = [NoLoad EXCEPT !.outcome = "profile", !.profile = merged]
    /\ UNCHANGED <<activeProfile, pmLast>>
    /\ UNCHANGED <<routerVars, dedupVars, licenseVars, bridgeVars, sessionVars,
                   toolVars, adapterVars>>

\* the names the active profile is switched to around a load
LoadActiveArgs == {"hardened", "custom"}

\* a manager that loads project overrides and switches the active profile
CustomNext ==
    \/ \E file \in ProfileFiles : LoadCustomProfile(file)
    \/ \E name \in LoadActiveArgs : SetActive(name)

(***************************************************************************)
(* LicenseClient (packages/gateway/src/license.ts)                         *)
(***************************************************************************)
CACHE_TTL_MS == 60 * 60 * 1000

\* Date.now() is observed at multiples of half the TTL
TickMs == 30 * 60 * 1000

LicenseKeys == {"key-a", "key-b"}

\* the requests in flight that may be inside validate at the same time
Callers == {"r1", "r2"}

INVALID_RESULT == [valid |-> FALSE, plan |-> "null", features |-> <<>>]

\* what the license server may send as a verdict
ValidVerdict == [valid |-> TRUE, plan |-> "pro", features |-> <<"sast", "deps">>]
RevokedVerdict == [valid |-> FALSE, plan |-> "expired", features |-> <<>>]

\* how one call to the license server ends: the fetch rejects (network
\* error, or the 5 s AbortSignal fires), or an HTTP answer arrives whose
\* body is a verdict, the JSON null, or not JSON at all
NoAnswer == [kind |-> "none", status |-> 0, json |-> FALSE, shape |-> "none", verdict |-> INVALID_RESULT]
LicenseAnswers ==
    { [NoAnswer EXCEPT !.kind = "neterr"],
      [NoAnswer EXCEPT !.kind = "timeout"],
      [NoAnswer EXCEPT !.kind = "http", !.status = 500],
      [NoAnswer EXCEPT !.kind = "http", !.status = 200],
      [NoAnswer EXCEPT !.kind = "http", !.status = 200, !.json = TRUE, !.shape = "null"],
      [NoAnswer EXCEPT !.kind = "http", !.status = 200, !.json = TRUE, !.shape = "verdict",
                       !.verdict = ValidVerdict],
      [NoAnswer EXCEPT !.kind = "http", !.status = 200, !.json = TRUE, !.shape = "verdict",
                       !.verdict = RevokedVerdict] }

\* validate reaches `const result = await res.json()` with a value whose
\* .valid can be read
AnswerParsed(a) ==
    /\ a.kind = "http"
    /\ ResponseOk(a)
    /\ a.json
    /\ a.shape = "verdict"

\* what validate returns once the fetch has ended with `a`
ValidateResult(a) == IF AnswerParsed(a) THEN a.verdict ELSE INVALID_RESULT

\* if (result.valid) this.cache.set(...)
Stores(a) == AnswerParsed(a) /\ a.verdict.valid

NoEntry == [has |-> FALSE, result |-> INVALID_RESULT, expiry |-> 0]
EmptyCache == [k \in LicenseKeys |-> NoEntry]

\* cached && cached.expiry > Date.now()
CacheHitAlways(cache, key, t) == cache[key].has
CacheHit(cache, key, t) == cache[key].has /\ cache[key].expiry > t

\* this.cache.set(key, { result, expiry: Date.now() + CACHE_TTL_MS })
CacheSet(cache, key, res, t) ==
    [cache EXCEPT ![key] = [has |-> TRUE, result |-> res, expiry |-> t + CACHE_TTL_MS]]

\* the cache after validate's fetch has ended with `a` at time t
CacheAfterAll(cache, key, a, t) == CacheSet(cache, key, ValidateResult(a), t)
CacheAfter(cache, key, a, t) ==
    IF Stores(a) THEN CacheSet(cache, key, ValidateResult(a), t) ELSE cache

NoValidate ==
    [pc |-> "idle", key |-> "", fetched |-> FALSE, answer |-> NoAnswer, result |-> INVALID_RESULT]

Never == <<>>
At(t) == <<t>>

LicenseInit ==
    /\ now = 0
    /\ licCache = EmptyCache
    /\ vcall = [c \in Callers |-> NoValidate]
    /\ verdictAt = [k \in LicenseKeys |-> Never]
    /\ lastVerdict = [k \in LicenseKeys |-> "none"]

Verdict(res) == IF res.valid THEN "valid" ELSE "invalid"

\* time passes
Tick ==
    /\ now < MaxTicks * TickMs
    /\ now' = now + TickMs
    /\ UNCHANGED <<licCache, vcall, verdictAt, lastVerdict>>
    /\ UNCHANGED <<routerVars, dedupVars, profileVars, customVars, bridgeVars, sessionVars,
                   toolVars, adapterVars>>

\* validate(key) up to its first await: a fresh cache entry is returned,
\* otherwise the fetch is issued
ValidateStart(c, key) ==
    /\ vcall[c].pc = "idle"
    /\ IF CacheHit(licCache, key, now)
       THEN /\ vcall' = [vcall EXCEPT ![c] = [NoValidate EXCEPT !.pc = "returned", !.key = key,
                                                               !.result = licCache[key].result]]
            /\ lastVerdict' = [lastVerdict EXCEPT ![key] = Verdict(licCache[key].result)]
       ELSE /\ vcall' = [vcall EXCEPT ![c] = [NoValidate EXCEPT !.pc = "fetching", !.key = key,
                                                               !.fetched = TRUE]]
            /\ lastVerdict' = lastVerdict
    /\ UNCHANGED <<now, licCache, verdictAt>>

ValidateCall(c, key) ==
    /\ ValidateStart(c, key)
    /\ UNCHANGED <<routerVars, dedupVars, profileVars, customVars, bridgeVars, sessionVars,
                   toolVars, adapterVars>>

\* validate from the await on: the fetch has ended with `a`
ValidateAnswer(c, a) ==
    /\ vcall[c].pc = "fetching"
    /\ LET key == vcall[c].key
           res == ValidateResult(a)
       IN  /\ licCache' = CacheAfter(licCache, key, a, now)
           /\ vcall' = [vcall EXCEPT ![c].pc = "returned", ![c].answer = a, ![c].result = res]
           /\ verdictAt' = IF res.valid THEN [verdictAt EXCEPT ![key] = At(now)] ELSE verdictAt
           /\ lastVerdict' = [lastVerdict EXCEPT ![key] = Verdict(res)]
    /\ UNCHANGED now
    /\ UNCHANGED <<routerVars, dedupVars, profileVars, customVars, bridgeVars, sessionVars,
                   toolVars, adapterVars>>

\* the caller has its verdict; it may call again
ValidateReset(c) ==
    /\ vcall[c].pc = "returned"
    /\ vcall' = [vcall EXCEPT ![c] = NoValidate]
    /\ UNCHANGED <<now, licCache, verdictAt, lastVerdict>>

ValidateDone(c) ==
    /\ ValidateReset(c)
    /\ UNCHANGED <<routerVars, dedupVars, profileVars, customVars, bridgeVars, sessionVars,
                   toolVars, adapterVars>>

LicenseNext ==
    \/ Tick
    \/ \E c \in Callers, key \in LicenseKeys : ValidateCall(c, key)
    \/ \E c \in Callers, a \in LicenseAnswers : ValidateAnswer(c, a)
    \/ \E c \in Callers : ValidateDone(c)

(***************************************************************************)
(* Entry point (packages/gateway/src/index.ts) and the POST /api/scan      *)
(* handler of the HTTP bridge (http-bridge.ts)                             *)
(***************************************************************************)
\* transport.sessionId of the connections that are followed
SessionIds == {"s1", "s2"}

\* the owners of a ProfileManager: startHttpBridge creates one for the REST
\* handler, createServer creates one for each session's server
BridgeManager == "bridge"
ManagerOwners == {BridgeManager} \cup SessionIds

\* process.env.SAFEWEAVE_LICENSE_KEY || ''
EnvKeys == {"", "key-a"}

NoValidation == [answer |-> NoAnswer, result |-> INVALID_RESULT]

\* the handler's validate call is caller "r1" of the bridge's LicenseClient
RestCaller == "r1"

\* what a client may post: a body over MAX_BODY_SIZE, text that is not JSON,
\* a truthy JSON scalar (1, "x", true), a falsy one (0, "", false), the JSON
\* null, or an object naming the scanners to run
NoBody == [kind |-> "none", requested |-> NoRequested]
RestRequested ==
    {[given |-> TRUE, names |-> {"sast"}], [given |-> TRUE, names |-> {"nonexistent"}]}
RestBodies ==
    {[NoBody EXCEPT !.kind = k] : k \in {"too-large", "not-json", "json-scalar", "json-falsy", "json-null"}}
    \cup {[kind |-> "json-object", requested |-> r] : r \in RestRequested}

NoRest ==
    [pc |-> "idle", validation |-> NoValidate, body |-> NoBody, status |-> 0,
     profile |-> Undefined, sent |-> NoValue, error |-> "", scanned |-> FALSE,
     usageAtSend |-> "none", activeAtStart |-> ""]

NoUsage == [state |-> "none", reports |-> 0]

\* how the usage fetch may end: answered, rejected, or aborted by its 5 s signal
UsageOutcomes == {"answered", "rejected", "aborted"}

BridgeInit(keys, ttys) ==
    /\ licenseKey \in keys
    /\ isTTY \in ttys
    /\ mainPc = "start"
    /\ mainValidation = NoValidation
    /\ bridgeUp = FALSE
    /\ stdioUp = FALSE
    /\ rest = NoRest
    /\ usage = NoUsage

\* if (!validation.valid) process.exit(1), in main
StartupRefusesNever(validation) == FALSE
StartupRefuses(validation) == ~validation.valid

\* main() up to its await: the key is required, and a new LicenseClient
\* (empty cache) is asked to validate it
MainStart ==
    /\ mainPc = "start"
    /\ IF licenseKey = "" \/ CacheHit(EmptyCache, licenseKey, now)
       THEN mainPc' = "exited"
       ELSE mainPc' = "validating"
    /\ UNCHANGED <<licenseKey, isTTY, mainValidation, bridgeUp, stdioUp, rest, usage>>
    /\ UNCHANGED <<routerVars, dedupVars, profileVars, customVars, licenseVars, sessionVars,
                   toolVars, adapterVars>>

\* main() from the await on: the verdict decides between exit and start
MainLicenseAnswers(a) ==
    /\ mainPc = "validating"
    /\ mainValidation' = [answer |-> a, result |-> ValidateResult(a)]
    /\ IF StartupRefuses(ValidateResult(a))
       THEN /\ mainPc' = "exited"
            /\ UNCHANGED <<bridgeUp, stdioUp>>
       ELSE /\ mainPc' = "running"
            /\ bridgeUp' = TRUE
            /\ stdioUp' = ~isTTY
    /\ UNCHANGED <<licenseKey, isTTY, rest, usage>>
    /\ UNCHANGED <<routerVars, dedupVars, profileVars, customVars, licenseVars, sessionVars,
                   toolVars, adapterVars>>

\* POST /api/scan arrives with its body: the handler calls
\* validate(LICENSE_KEY) before it reads anything of the body
RestScan(body) ==
    /\ bridgeUp
    /\ rest.pc = "idle"
    /\ ValidateStart(RestCaller, licenseKey)
    /\ rest' = [NoRest EXCEPT !.pc = "license", !.body = body,
                              !.activeAtStart = managers[BridgeManager]]
    /\ usage' = NoUsage
    /\ UNCHANGED <<licenseKey, isTTY, mainPc, mainValidation, bridgeUp, stdioUp>>
    /\ UNCHANGED <<routerVars, dedupVars, profileVars, customVars, sessionVars,
                   toolVars, adapterVars>>

\* the license server's answer reaches the handler's validate call
RestLicenseAnswers(a) ==
    /\ rest.pc = "license"
    /\ ValidateAnswer(RestCaller, a)

\* if (!validation.valid) { sendJson(res, 403, ...); return; }
LicenseRejectsNever(validation) == FALSE
LicenseRejects(validation) == ~validation.valid

InvalidLicenseError == "Invalid or expired license key. Visit https://safeweave.dev to get a valid key."

\* the bodies the handler scans for: body && typeof body !== 'object' lets
\* an object, a falsy scalar and null through, and of these only null makes
\* the next line (body.directory) throw
BodyPasses(body) == body.kind \in {"json-object", "json-falsy"}

\* body.scanners && body.scanners.length > 0: a property read of a falsy
\* scalar is undefined, so no scanner is requested
BodyRequested(body) == IF body.kind = "json-object" THEN body.requested ELSE NoRequested

\* the answer the handler gives without scanning: readBody rejects (413),
\* JSON.parse throws (400), the object test fails (400), and body.directory
\* of null throws into the outer catch (500)
BodyStatus(body) ==
    CASE body.kind = "too-large" -> 413
      [] body.kind = "not-json" -> 400
      [] body.kind = "json-scalar" -> 400
      [] body.kind = "json-null" -> 500
      [] OTHER -> 0
BodyError(body) ==
    CASE body.kind = "too-large" -> "Request body too large"
      [] body.kind = "not-json" -> "Invalid JSON in request body"
      [] body.kind = "json-scalar" -> "Request body must be a JSON object"
      [] body.kind = "json-null" -> "Internal server error"
      [] OTHER -> ""

\* the handler from validate's return to its next await: 403 on an invalid
\* verdict; otherwise the body is read and parsed, and scanAll is called
RestLicensed ==
    /\ rest.pc = "license"
    /\ ValidateReset(RestCaller)
    /\ LET v == vcall[RestCaller]
           body == rest.body
       IN  IF LicenseRejects(v.result)
           THEN /\ rest' = [rest EXCEPT !.pc = "done", !.validation = v, !.status = 403,
                                        !.error = InvalidLicenseError]
                /\ UNCHANGED routerVars
           ELSE IF ~BodyPasses(body)
           THEN /\ rest' = [rest EXCEPT !.pc = "done", !.validation = v,
                                        !.status = BodyStatus(body), !.error = BodyError(body)]
                /\ UNCHANGED routerVars
           ELSE /\ rest' = [rest EXCEPT !.pc = "scanning", !.validation = v,
                                        !.profile = GetActiveValue(BuiltInNames,
                                                                   managers[BridgeManager]),
                                        !.scanned = TRUE]
                /\ ScanAllStart(BodyRequested(body))
    /\ UNCHANGED <<licenseKey, isTTY, mainPc, mainValidation, bridgeUp, stdioUp, usage>>
    /\ UNCHANGED <<dedupVars, profileVars, customVars, sessionVars,
                   toolVars, adapterVars>>

\* reportUsage(key, ...): nothing without a key, else one fetch is issued
\* and left to settle on its own
ReportUsage(key, u) ==
    IF key = "" THEN u ELSE [state |-> "pending", reports |-> u.reports + 1]

\* the handler from scanAll's return on: the usage report is issued and the
\* result is sent; a scanAll that threw is answered 500
RestResponds ==
    /\ rest.pc = "scanning"
    /\ pc \in {"returned", "threw"}
    /\ IF pc = "threw"
       THEN /\ rest' = [rest EXCEPT !.pc = "done", !.status = 500,
                                    !.error = "Internal server error"]
            /\ usage' = usage
       ELSE /\ usage' = ReportUsage(licenseKey, usage)
            /\ rest' = [rest EXCEPT !.pc = "done", !.status = 200, !.sent = result,
                                    !.usageAtSend = usage'.state]
    /\ UNCHANGED <<licenseKey, isTTY, mainPc, mainValidation, bridgeUp, stdioUp>>
    /\ UNCHANGED <<routerVars, dedupVars, profileVars, customVars, licenseVars, sessionVars,
                   toolVars, adapterVars>>

\* the usage fetch ends; .catch(() => {}) swallows a rejection
UsageSettledRetrying(u, outcome) ==
    IF outcome = "answered" THEN [u EXCEPT !.state = outcome]
    ELSE [state |-> "pending", reports |-> u.reports + 1]
UsageSettled(u, outcome) == [u EXCEPT !.state = outcome]

UsageSettles(outcome) ==
    /\ usage.state = "pending"
    /\ usage' = UsageSettled(usage, outcome)
    /\ UNCHANGED <<licenseKey, isTTY, mainPc, mainValidation, bridgeUp, stdioUp, rest>>
    /\ UNCHANGED <<routerVars, dedupVars, profileVars, customVars, licenseVars, sessionVars,
                   toolVars, adapterVars>>

\* the client has its response; the next request may arrive
RestDone ==
    /\ rest.pc = "done"
    /\ rest' = NoRest
    /\ IF pc = "idle" THEN UNCHANGED routerVars ELSE RouterReset
    /\ UNCHANGED <<licenseKey, isTTY, mainPc, mainValidation, bridgeUp, stdioUp, usage>>
    /\ UNCHANGED <<dedupVars, profileVars, customVars, licenseVars, sessionVars,
                   toolVars, adapterVars>>

BridgeNext ==
    \/ MainStart
    \/ \E a \in LicenseAnswers : MainLicenseAnswers(a)
    \/ Tick
    \/ \E body \in RestBodies : RestScan(body)
    \/ \E a \in LicenseAnswers : RestLicenseAnswers(a)
    \/ RestLicensed
    \/ \E b \in ScannerNames : BackendResponds(b)
    \/ \E b \in ScannerNames : BackendStalls(b)
    \/ ScanAllMerge
    \/ RestResponds
    \/ \E outcome \in UsageOutcomes : UsageSettles(outcome)
    \/ RestDone

(***************************************************************************)
(* SSE sessions of the HTTP bridge (http-bridge.ts): GET /sse and          *)
(* POST /messages, and the tool handler of the server each session gets    *)
(* from createServer (server.ts)                                           *)
(***************************************************************************)
\* what a POST /messages may carry as sessionId: nothing, an id the bridge
\* never issued, or an id it issued
PostedIds == {"", "unknown"} \cup SessionIds

\* the tool calls that are followed
NoMessage == [tool |-> "none", profile |-> ""]
SessionMessages ==
    { [tool |-> "set_profile", profile |-> "hardened"],
      [tool |-> "set_profile", profile |-> "nonexistent"],
      [tool |-> "scan_project", profile |-> ""] }

NoPost ==
    [sessionId |-> "", message |-> NoMessage, status |-> 0, reached |-> "",
     isError |-> FALSE, profile |-> Undefined]

NoSelection == [by |-> "", profile |-> ""]

SessionInit ==
    /\ sseTransports = {}
    /\ sess = [s \in SessionIds |-> "none"]
    /\ managers = [o \in ManagerOwners |-> "standard"]
    /\ selected = NoSelection
    /\ post = NoPost

\* GET /sse up to its await: the transport is registered under its session
\* id, the session's server (with its own ProfileManager) is created, and
\* connect is awaited
SseOpen(s) ==
    /\ bridgeUp
    /\ sess[s] = "none"
    /\ sseTransports' = sseTransports \cup {s}
    /\ managers' = [managers EXCEPT ![s] = "standard"]
    /\ sess' = [sess EXCEPT ![s] = "connecting"]
    /\ UNCHANGED <<selected, post>>
    /\ UNCHANGED <<routerVars, dedupVars, profileVars, customVars, licenseVars, bridgeVars,
                   toolVars, adapterVars>>

\* connect resolves: the stream is open
ConnectSucceeds(s) ==
    /\ sess[s] = "connecting"
    /\ sess' = [sess EXCEPT ![s] = "open"]
    /\ UNCHANGED <<sseTransports, managers, selected, post>>
    /\ UNCHANGED <<routerVars, dedupVars, profileVars, customVars, licenseVars, bridgeVars,
                   toolVars, adapterVars>>

\* connect rejects: the handler's catch logs and answers 500
ConnectFails(s) ==
    /\ sess[s] = "connecting"
    /\ sess' = [sess EXCEPT ![s] = "failed"]
    /\ UNCHANGED <<sseTransports, managers, selected, post>>
    /\ UNCHANGED <<routerVars, dedupVars, profileVars, customVars, licenseVars, bridgeVars,
                   toolVars, adapterVars>>

\* the stream of an open session ends and the transport calls the onclose
\* callback the bridge assigned
SessionCloses(s) ==
    /\ sess[s] = "open"
    /\ sess' = [sess EXCEPT ![s] = "closed"]
    /\ sseTransports' = sseTransports \ {s}
    /\ UNCHANGED <<managers, selected, post>>
    /\ UNCHANGED <<routerVars, dedupVars, profileVars, customVars, licenseVars, bridgeVars,
                   toolVars, adapterVars>>

\* !sessionId || !sseTransports.has(sessionId)
PostRejected(registry, sessionId) == sessionId = "" \/ sessionId \notin registry

\* the ProfileManager a tool call in session s works on
ToolManager(s) == s

\* POST /messages?sessionId=...: 400 unless the id is registered; otherwise
\* the message goes to that session's transport, and on an open stream to
\* the tool handler of that session's server
PostMessage(sessionId, message) ==
    /\ bridgeUp
    /\ IF PostRejected(sseTransports, sessionId)
       THEN /\ post' = [NoPost EXCEPT !.sessionId = sessionId, !.message = message,
                                      !.status = 400]
            /\ UNCHANGED <<managers, selected>>
       ELSE IF sess[sessionId] # "open"
       THEN /\ post' = [NoPost EXCEPT !.sessionId = sessionId, !.message = message,
                                      !.status = 500, !.reached = sessionId]
            /\ UNCHANGED <<managers, selected>>
       ELSE LET m == ToolManager(sessionId)
                before == GetActiveValue(BuiltInNames, managers[m])
            IN  IF message.tool = "set_profile"
                THEN IF ~Truthy(ProfileLookup(BuiltInNames, message.profile))
                     THEN /\ post' = [NoPost EXCEPT !.sessionId = sessionId,
                                         !.message = message, !.status = 202,
                                         !.reached = sessionId, !.isError = TRUE,
                                         !.profile = before]
                          /\ UNCHANGED <<managers, selected>>
                     ELSE /\ managers' = [managers EXCEPT ![m] = message.profile]
                          /\ post' = [NoPost EXCEPT !.sessionId = sessionId,
                                         !.message = message, !.status = 202,
                                         !.reached = sessionId,
                                         !.profile = GetActiveValue(BuiltInNames, managers'[m])]
                          /\ selected' = [by |-> sessionId, profile |-> message.profile]
                ELSE /\ post' = [NoPost EXCEPT !.sessionId = sessionId, !.message = message,
                                    !.status = 202, !.reached = sessionId, !.profile = before]
                     /\ UNCHANGED <<managers, selected>>
    /\ UNCHANGED <<sseTransports, sess>>
    /\ UNCHANGED <<routerVars, dedupVars, profileVars, customVars, licenseVars, bridgeVars,
                   toolVars, adapterVars>>

\* the body posted and the license answers given while sessions are followed
RestScanBodies == {[kind |-> "json-object", requested |-> [given |-> TRUE, names |-> {"nonexistent"}]]}
RestValidAnswers == {a \in LicenseAnswers : Stores(a)}

SessionNext ==
    \/ \E s \in SessionIds : SseOpen(s)
    \/ \E s \in SessionIds : ConnectSucceeds(s)
    \/ \E s \in SessionIds : ConnectFails(s)
    \/ \E s \in SessionIds : SessionCloses(s)
    \/ \E sessionId \in PostedIds, message \in SessionMessages : PostMessage(sessionId, message)
    \/ \E body \in RestScanBodies : RestScan(body)
    \/ \E a \in RestValidAnswers : RestLicenseAnswers(a)
    \/ RestLicensed
    \/ ScanAllMerge
    \/ RestResponds
    \/ RestDone

(***************************************************************************)
(* The MCP server of one session (createServer): its tool handler with the *)
(* lastFindings list, its resources and its prompts.  The server's         *)
(* ProfileManager is the manager of profileKeys / activeProfile; its       *)
(* Router has one client per scanner of the default configuration.  Two    *)
(* requests may be suspended at their await at the same time.              *)
(***************************************************************************)
\* the findings a tool's backend may report; only severity and id are read
\* by the tools besides the fields of the deduplication key
GC == [file |-> "a", line |-> <<1>>, cwe |-> "x", title |-> "x", severity |-> "critical", id |-> "SAST-1"]
GH == [file |-> "b", line |-> <<1>>, cwe |-> "x", title |-> "x", severity |-> "high", id |-> "DEP-1"]
GM == [file |-> "c", line |-> <<1>>, cwe |-> "x", title |-> "x", severity |-> "medium", id |-> "IAC-1"]
GL == [file |-> "d", line |-> <<1>>, cwe |-> "x", title |-> "x", severity |-> "low", id |-> "LIC-1"]
GI == [file |-> "e", line |-> <<1>>, cwe |-> "x", title |-> "x", severity |-> "info", id |-> "DAST-1"]

\* the scanners of DEFAULT_CONFIG, all enabled: the clients of the server's
\* Router, in registration order
ToolClients == ConfigOrder

\* the backend each single-backend tool names in its scanWith call
SingleBackendTools ==
    {"scan_file", "scan_dependencies", "scan_iac", "check_container", "check_license",
     "dast_check", "check_posture"}
ToolBackend(name) ==
    CASE name = "scan_file" -> "sast"
      [] name = "scan_dependencies" -> "deps"
      [] name = "scan_iac" -> "iac"
      [] name = "check_container" -> "container"
      [] name = "check_license" -> "license"
      [] name = "dast_check" -> "dast"
      [] name = "check_posture" -> "posture"
      [] OTHER -> ""

\* the tools that read state and call no backend
ReadOnlyTools == {"get_findings", "get_security_score", "suggest_fix"}

\* request names a client may send: the thirteen tools and one that is none
ToolNames ==
    {"scan_project", "set_profile"} \cup SingleBackendTools \cup ReadOnlyTools
    \cup {"no_such_tool"}

\* the argument that matters to each tool: set_profile's profile,
\* suggest_fix's finding_id, get_findings' severity filter
ToolArgs(name) ==
    CASE name = "set_profile" -> {"hardened", "nonexistent", "constructor"}
      [] name = "suggest_fix" -> {"SAST-1", "NOPE-1"}
      [] name = "get_findings" -> {"", "critical"}
      [] OTHER -> {""}

\* what the backend of a tool call may answer
ToolOk(b, fs) ==
    [kind |-> "http", status |-> 200, json |-> TRUE,
     body |-> [shape |-> "scanresult", findings |-> fs, scanner |-> b, version |-> "0.1.0",
               duration_ms |-> 5, warnings |-> <<>>]]
ToolNetErr == [kind |-> "neterr", status |-> 0, json |-> FALSE, body |-> NoValue]
ToolNull ==
    [kind |-> "http", status |-> 200, json |-> TRUE, body |-> [NoValue EXCEPT !.shape = "null"]]

\* lists a single backend reports: scanWith hands them on as they are, so a
\* finding reported three times stays three findings
SingleLists == {<<>>, <<GM>>, <<GC, GC, GC>>}
SingleAnswers(b) == {ToolOk(b, fs) : fs \in SingleLists} \cup {ToolNetErr, ToolNull}

\* answers of all backends to one scan_project: all empty, two backends
\* reporting the same finding, one backend down, one sending null
AllEmpty == [b \in Range(ToolClients) |-> ToolOk(b, <<>>)]
ProjectAnswers ==
    { AllEmpty,
      [AllEmpty EXCEPT !["sast"] = ToolOk("sast", <<GC, GM>>), !["iac"] = ToolOk("iac", <<GM>>)],
      [AllEmpty EXCEPT !["deps"] = ToolOk("deps", <<GH, GL, GI>>), !["dast"] = ToolNetErr],
      [AllEmpty EXCEPT !["license"] = ToolNull] }

\* .name of what getActive() returned: a profile's own name, the name of a
\* function inherited from Object.prototype, or undefined ("")
ProfileName(v) ==
    CASE v.kind = "profile" -> v.name
      [] v.kind = "inherited" /\ v.name = "constructor" -> "Object"
      [] v.kind = "inherited" /\ v.name = "toString" -> "toString"
      [] OTHER -> ""

\* mutant: every request carries the standard profile
RequestProfileStandard(v) == [name |-> "standard", rules |-> "standard"]

\* profile: { name: profile.name, rules: profile.rules } of the ScanRequest;
\* the rules are named by the profile object they were read from
RequestProfile(v) ==
    [name |-> ProfileName(v), rules |-> IF v.kind = "profile" THEN v.name ELSE ""]
NoRequestProfile == [name |-> "", rules |-> ""]

\* calculateScore: weights[f.severity] || 0
Weights(severity) ==
    CASE severity = "critical" -> 25
      [] severity = "high" -> 15
      [] severity = "medium" -> 8
      [] severity = "low" -> 3
      [] OTHER -> 0

RECURSIVE Deductions(_)
Deductions(findings) ==
    IF findings = <<>> THEN 0
    ELSE Weights(Head(findings).severity) + Deductions(Tail(findings))

\* mutant: the score is not floored
ScoreOfUnfloored(deductions) == 100 - deductions

\* Math.max(0, 100 - deductions)
ScoreOf(deductions) == IF 100 - deductions > 0 THEN 100 - deductions ELSE 0

\* score >= 80 ? 'good' : score >= 50 ? 'needs_attention' : 'critical'
StatusOf(score) ==
    IF score >= 80 THEN "good" ELSE IF score >= 50 THEN "needs_attention" ELSE "critical"

\* calculateScore(findings), without the breakdown
CalculateScore(findings) ==
    IF findings = <<>> THEN [score |-> 100, status |-> "no_findings"]
    ELSE [score |-> ScoreOf(Deductions(findings)),
          status |-> StatusOf(ScoreOf(Deductions(findings)))]
NoScore == [score |-> 0, status |-> ""]

\* mutant: scan_project extends the cache as the other tools do
ReplaceFindingsAppending(cache, findings) == cache \o findings

\* lastFindings = result.findings
ReplaceFindings(cache, findings) == findings

\* mutant: the other tools overwrite the cache as scan_project does
AppendFindingsOverwriting(cache, findings) == findings

\* lastFindings = [...lastFindings, ...result.findings], evaluated after the
\* await
AppendFindings(cache, findings) == cache \o findings

\* get_findings: the cache filtered by params.severity when it is given
GetFindings(cache, severity) ==
    SelectSeq(cache, LAMBDA f : severity = "" \/ f.severity = severity)

\* lastFindings.find((f) => f.id === params.finding_id)
HasFinding(cache, id) == \E i \in 1..Len(cache) : cache[i].id = id

\* the request slots: requests of one session handled at the same time
ToolSlots == {"t1", "t2"}

NoToolCall ==
    [pc |-> "idle", tool |-> "none", profile |-> NoRequestProfile, activeAtStart |-> "",
     dispatched |-> <<>>, peerAppended |-> FALSE]

\* an answer: a result, a result marked isError, a thrown Error that the
\* protocol layer turns into an error response
NoAnswerYet ==
    [slot |-> "", request |-> "none", arg |-> "", kind |-> "none", text |-> "",
     profile |-> NoRequestProfile, activeAtStart |-> "", dispatched |-> <<>>,
     findings |-> <<>>, before |-> <<>>, overlapped |-> FALSE, peerAppended |-> FALSE,
     score |-> NoScore]

ToolInit ==
    /\ lastFindings = <<>>
    /\ tcall = [s \in ToolSlots |-> NoToolCall]
    /\ tout = NoAnswerYet

\* the tool handler from its start to its return or its first await
CallTool(slot, name, arg, readable) ==
    /\ tcall[slot].pc = "idle"
    /\ LET profile == GetActiveValue(profileKeys, activeProfile)
           answer == [NoAnswerYet EXCEPT !.slot = slot, !.request = name, !.arg = arg,
                                         !.before = lastFindings]
           suspended(names) ==
               [pc |-> "waiting", tool |-> name, profile |-> RequestProfile(profile),
                activeAtStart |-> activeProfile, dispatched |-> names,
                peerAppended |-> FALSE]
       IN  CASE name = "scan_project" ->
                  /\ Len(lastFindings) <= MaxCache
                  /\ tcall' = [tcall EXCEPT
                                  ![slot] = suspended(Selected(ToolClients, NoRequested))]
                  /\ UNCHANGED <<lastFindings, tout, activeProfile>>
             [] name = "scan_file" /\ ~readable ->
                  /\ tout' = [answer EXCEPT !.kind = "isError", !.text = "Cannot read file: "]
                  /\ UNCHANGED <<lastFindings, tcall, activeProfile>>
             [] name \in SingleBackendTools /\ ~(name = "scan_file" /\ ~readable) ->
                  IF ToolBackend(name) \in Range(ToolClients)
                  THEN /\ Len(lastFindings) <= MaxCache
                       /\ tcall' = [tcall EXCEPT ![slot] = suspended(<<ToolBackend(name)>>)]
                       /\ UNCHANGED <<lastFindings, tout, activeProfile>>
                  ELSE LET res == NoClientResult(ToolBackend(name))
                       IN  /\ lastFindings' =
                                 AppendFindings(lastFindings, res.findings)
                           /\ tout' = [answer EXCEPT !.kind = "result",
                                                     !.profile = RequestProfile(profile),
                                                     !.findings = res.findings]
                           /\ UNCHANGED <<tcall, activeProfile>>
             [] name = "get_findings" ->
                  /\ tout' = [answer EXCEPT !.kind = "result",
                                            !.findings = GetFindings(lastFindings, arg)]
                  /\ UNCHANGED <<lastFindings, tcall, activeProfile>>
             [] name = "get_security_score" ->
                  /\ tout' = [answer EXCEPT !.kind = "result",
                                            !.score = CalculateScore(lastFindings)]
                  /\ UNCHANGED <<lastFindings, tcall, activeProfile>>
             [] name = "suggest_fix" ->
                  /\ IF HasFinding(lastFindings, arg)
                     THEN tout' = [answer EXCEPT !.kind = "result"]
                     ELSE tout' = [answer EXCEPT !.kind = "isError",
                                                 !.text = "Finding not found: " \o arg]
                  /\ UNCHANGED <<lastFindings, tcall, activeProfile>>
             [] name = "set_profile" ->
                  /\ IF ~Truthy(ProfileLookup(profileKeys, arg))
                     THEN /\ tout' = [answer EXCEPT
                                         !.kind = "isError",
                                         !.text = UnknownProfileMessage(profileKeys, arg)]
                          /\ activeProfile' = activeProfile
                     ELSE /\ activeProfile' = arg
                          /\ tout' = [answer EXCEPT
                                         !.kind = "result",
                                         !.text = ProfileName(GetActiveValue(profileKeys, arg))]
                  /\ UNCHANGED <<lastFindings, tcall>>
             [] OTHER ->
                  /\ tout' = [answer EXCEPT !.kind = "isError",
                                            !.text = "Unknown tool: " \o name]
                  /\ UNCHANGED <<lastFindings, tcall, activeProfile>>
    /\ UNCHANGED <<profileKeys, pmLast>>
    /\ UNCHANGED <<routerVars, dedupVars, customVars, licenseVars, bridgeVars, sessionVars,
                   adapterVars>>

\* the values the dispatched clients' scans resolve to, in dispatch order
RECURSIVE ScanValues(_, _)
ScanValues(names, answers) ==
    IF names = <<>> THEN <<>>
    ELSE <<ScannerClientScan(Head(names), answers[Head(names)])>>
         \o ScanValues(Tail(names), answers)

\* the handler reads result.findings: a TypeError when the result is null or
\* has no findings list
ResultUnreadable(value) == value.shape \in {"null", "nofindings", "none"}

\* the tool handler from its await to its return: the Router call's outcome
\* is written to the cache and returned
ToolResumes(slot, answers) ==
    /\ tcall[slot].pc = "waiting"
    /\ LET c == tcall[slot]
           values == ScanValues(c.dispatched, answers)
           answer == [NoAnswerYet EXCEPT
                         !.slot = slot, !.request = c.tool, !.profile = c.profile,
                         !.activeAtStart = c.activeAtStart, !.dispatched = c.dispatched,
                         !.before = lastFindings, !.peerAppended = c.peerAppended,
                         !.overlapped = \E o \in ToolSlots \ {slot} : tcall[o].pc = "waiting"]
           \* the calls still suspended: findings were appended meanwhile
           noted(fs) ==
               [o \in ToolSlots |->
                   IF o = slot THEN NoToolCall
                   ELSE IF tcall[o].pc = "waiting" /\ fs # <<>>
                        THEN [tcall[o] EXCEPT !.peerAppended = TRUE]
                        ELSE tcall[o]]
       IN  IF c.tool = "scan_project"
           THEN IF MergeThrows(values)
                THEN /\ tout' = [answer EXCEPT !.kind = "threw"]
                     /\ lastFindings' = lastFindings
                     /\ tcall' = noted(<<>>)
                ELSE LET res == ScanAllResult(values, 0)
                     IN  /\ lastFindings' = ReplaceFindings(lastFindings, res.findings)
                         /\ tout' = [answer EXCEPT !.kind = "result",
                                                   !.findings = res.findings]
                         /\ tcall' = noted(<<>>)
           ELSE LET res == ScanWithResult(values[1])
                IN  IF ResultUnreadable(res)
                    THEN /\ tout' = [answer EXCEPT !.kind = "threw"]
                         /\ lastFindings' = lastFindings
                         /\ tcall' = noted(<<>>)
                    ELSE /\ lastFindings' = AppendFindings(lastFindings, res.findings)
                         /\ tout' = [answer EXCEPT !.kind = "result",
                                                   !.findings = res.findings]
                         /\ tcall' = noted(res.findings)
    /\ UNCHANGED <<profileVars>>
    /\ UNCHANGED <<routerVars, dedupVars, customVars, licenseVars, bridgeVars, sessionVars,
                   adapterVars>>

\* the resource URIs a client may read
ComplianceNames == {"hipaa", "nonexistent", "constructor"}
ResourceUris ==
    {"safeweave://profiles", "safeweave://findings/summary", "safeweave://nowhere"}
    \cup {"safeweave://compliance/" \o n : n \in ComplianceNames}

\* uri.match(/^safeweave:\/\/compliance\/(.+)$/) and getProfile(match[1])
ComplianceFound(keys, uri) ==
    \E n \in ComplianceNames :
        uri = "safeweave://compliance/" \o n /\ Truthy(ProfileLookup(keys, n))

\* the ReadResource handler
ReadResource(uri) ==
    /\ LET answer == [NoAnswerYet EXCEPT !.request = "resources/read", !.arg = uri,
                                         !.before = lastFindings]
           fixed == {"safeweave://profiles", "safeweave://findings/summary",
                     "safeweave://config"}
       IN  IF uri \in fixed \/ ComplianceFound(profileKeys, uri)
           THEN tout' = [answer EXCEPT !.kind = "result"]
           ELSE tout' = [answer EXCEPT !.kind = "threw", !.text = "Unknown resource: " \o uri]
    /\ UNCHANGED <<lastFindings, tcall>>
    /\ UNCHANGED <<profileVars>>
    /\ UNCHANGED <<routerVars, dedupVars, customVars, licenseVars, bridgeVars, sessionVars,
                   adapterVars>>

\* the prompts of the server, and a name that is none of them
PromptNames == {"security_review", "no_such_prompt"}

\* the GetPrompt handler
GetPrompt(name) ==
    /\ LET answer == [NoAnswerYet EXCEPT !.request = "prompts/get", !.arg = name,
                                         !.before = lastFindings]
       IN  IF name \in {"security_review", "threat_model", "secure_code_guide"}
           THEN tout' = [answer EXCEPT !.kind = "result"]
           ELSE tout' = [answer EXCEPT !.kind = "threw", !.text = "Unknown prompt: " \o name]
    /\ UNCHANGED <<lastFindings, tcall>>
    /\ UNCHANGED <<profileVars>>
    /\ UNCHANGED <<routerVars, dedupVars, customVars, licenseVars, bridgeVars, sessionVars,
                   adapterVars>>

\* the answers a waiting call's backends may give
AnswersFor(c) ==
    IF c.tool = "scan_project" THEN ProjectAnswers
    ELSE {[b \in Range(c.dispatched) |-> a] : a \in SingleAnswers(ToolBackend(c.tool))}

\* one request at a time
FirstSlot == "t1"
ToolNext ==
    \/ \E name \in ToolNames, readable \in BOOLEAN :
          \E arg \in ToolArgs(name) : CallTool(FirstSlot, name, arg, readable)
    \/ \E answers \in AnswersFor(tcall[FirstSlot]) : ToolResumes(FirstSlot, answers)
    \/ \E uri \in ResourceUris : ReadResource(uri)
    \/ \E name \in PromptNames : GetPrompt(name)

\* the scans that are followed when two are handled at the same time
OverlapTools == {"scan_file", "scan_iac", "scan_project"}

OverlapNext ==
    \/ \E slot \in ToolSlots, name \in OverlapTools : CallTool(slot, name, "", TRUE)
    \/ \E slot \in ToolSlots :
          \E answers \in AnswersFor(tcall[slot]) : ToolResumes(slot, answers)

\* a scan of the session's server and a scan of the REST handler in flight
\* while set_profile requests are answered
SnapshotTools == {"scan_file", "scan_project"}
SnapshotProfiles == {"standard", "hardened"}
SecondSlot == "t2"

(***************************************************************************)
(* Scanner adapters: runTrivyVuln (container), runTrivyMisconfig (iac) and *)
(* runNuclei (dast) run an external tool with execFile and turn what it    *)
(* printed into findings.                                                  *)
(***************************************************************************)
AdapterNames == {"runTrivyVuln", "runTrivyMisconfig", "runNuclei"}

\* request.context.target_url: absent ("") or given
TargetUrls == {"", "http://t"}

\* Severity as the tools print it; "" stands for an absent field
RawSeverities == {"CRITICAL", "High", "medium", "low", "UNKNOWN", ""}

\* severity?.toUpperCase() and severity?.toLowerCase() on these strings
ToUpperCase(s) ==
    CASE s = "High" -> "HIGH" [] s = "medium" -> "MEDIUM" [] s = "low" -> "LOW" [] OTHER -> s
ToLowerCase(s) ==
    CASE s = "CRITICAL" -> "critical" [] s = "High" -> "high" [] s = "UNKNOWN" -> "unknown"
      [] OTHER -> s

MapTrivySeverity(severity) ==
    CASE ToUpperCase(severity) = "CRITICAL" -> "critical"
      [] ToUpperCase(severity) = "HIGH" -> "high"
      [] ToUpperCase(severity) = "MEDIUM" -> "medium"
      [] ToUpperCase(severity) = "LOW" -> "low"
      [] OTHER -> "info"

MapNucleiSeverity(severity) ==
    CASE ToLowerCase(severity) = "critical" -> "critical"
      [] ToLowerCase(severity) = "high" -> "high"
      [] ToLowerCase(severity) = "medium" -> "medium"
      [] ToLowerCase(severity) = "low" -> "low"
      [] OTHER -> "info"

\* one entry of the tool's report: a Trivy vulnerability or misconfiguration,
\* or the object on one line of Nuclei's output
Entries == [id : {"", "X-1"}, severity : RawSeverities]

\* what the tool wrote to stdout:
\*   "none"     nothing
\*   "text"     something that JSON.parse rejects
\*   "null"     the JSON value null
\*   "object"   a JSON object without Results
\*   "results"  a JSON object whose Results lists one target with its entries
\*              (Trivy), or one JSON object per line (Nuclei)
\*   "blank"    only empty lines
\*   "mixed"    the entries' lines followed by a line that JSON.parse rejects
NoStdout == [kind |-> "none", target |-> "", entries |-> <<>>]
EntryLists == {<<>>} \cup {<<e>> : e \in Entries} \cup {<<e, e>> : e \in Entries}
Stdouts ==
    {[NoStdout EXCEPT !.kind = k] : k \in {"none", "text", "null", "object", "blank"}}
    \cup {[kind |-> k, target |-> t, entries |-> es] :
             k \in {"results", "mixed"}, t \in {"", "main.tf"}, es \in EntryLists}

\* `!stdout`
StdoutFalsy(out) == out.kind = "none"

\* JSON.parse(stdout) throws; Trivy's adapters parse the whole text, and a
\* text of several JSON lines is not one JSON value
TrivyParseThrows(out) == out.kind \in {"text", "blank", "mixed"}

\* output.Results of null throws a TypeError
TrivyReadThrows(out) == out.kind = "null"

\* `${prefix}${id || 'UNKNOWN'}`, `CONTAINER-${id}`
IdOr(prefix, id, fallback) == prefix \o (IF id = "" THEN fallback ELSE id)

AdapterFinding(id, severity, file) == [id |-> id, severity |-> severity, file |-> file]

\* the findings runTrivyVuln pushes for a parsed report
TrivyVulnFindings(out) ==
    IF out.kind # "results" THEN <<>>
    ELSE [i \in 1..Len(out.entries) |->
             AdapterFinding(IdOr("CONTAINER-", out.entries[i].id, "undefined"),
                            MapTrivySeverity(out.entries[i].severity), out.target)]

\* the findings runTrivyMisconfig pushes for a parsed report
TrivyMisconfigFindings(out) ==
    IF out.kind # "results" THEN <<>>
    ELSE [i \in 1..Len(out.entries) |->
             AdapterFinding(IdOr("IAC-", out.entries[i].id, "UNKNOWN"),
                            MapTrivySeverity(out.entries[i].severity), out.target)]

\* runNuclei parses line by line: a blank line is skipped, a line that is
\* not JSON throws; null on a line throws when its fields are read
NucleiThrows(out) == out.kind \in {"text", "mixed", "null"}

\* file: entry['matched-at'] || targetUrl
NucleiFindings(out, targetUrl) ==
    CASE out.kind = "results" ->
           [i \in 1..Len(out.entries) |->
               AdapterFinding(IdOr("DAST-", out.entries[i].id, "UNKNOWN"),
                              MapNucleiSeverity(out.entries[i].severity),
                              IF out.target = "" THEN targetUrl ELSE out.target)]
      [] out.kind = "object" ->
           <<AdapterFinding("DAST-UNKNOWN", "info", targetUrl)>>
      [] OTHER -> <<>>

\* mutant: the callback rejects when execFile reports an error
AdapterCallbackStrict(name, targetUrl, error, out) ==
    IF error THEN [settled |-> "rejected", findings |-> <<>>]
    ELSE [settled |-> "resolved", findings |-> <<>>]

\* the execFile callback (_error, stdout): what the adapter's promise
\* settles to
AdapterCallback(name, targetUrl, error, out) ==
    IF StdoutFalsy(out) THEN [settled |-> "resolved", findings |-> <<>>]
    ELSE IF name = "runNuclei"
    THEN [settled |-> "resolved",
          findings |-> IF NucleiThrows(out) THEN <<>> ELSE NucleiFindings(out, targetUrl)]
    ELSE IF TrivyParseThrows(out) \/ TrivyReadThrows(out)
    THEN [settled |-> "resolved", findings |-> <<>>]
    ELSE [settled |-> "resolved",
          findings |-> IF name = "runTrivyVuln" THEN TrivyVulnFindings(out)
                       ELSE TrivyMisconfigFindings(out)]

NoAdapterCall ==
    [pc |-> "idle", name |-> "", targetUrl |-> "", ran |-> FALSE, error |-> FALSE,
     stdout |-> NoStdout, settled |-> "pending", findings |-> <<>>]

AdapterInit == adapter = NoAdapterCall

\* the adapter up to execFile; runNuclei without a target_url returns
\* Promise.resolve([]) and runs nothing
AdapterCall(name, targetUrl) ==
    /\ adapter.pc = "idle"
    /\ IF name = "runNuclei" /\ targetUrl = ""
       THEN adapter' = [NoAdapterCall EXCEPT !.pc = "settled", !.name = name,
                                             !.settled = "resolved"]
       ELSE adapter' = [NoAdapterCall EXCEPT !.pc = "running", !.name = name,
                                             !.targetUrl = targetUrl, !.ran = TRUE]
    /\ UNCHANGED <<routerVars, dedupVars, profileVars, customVars, licenseVars, bridgeVars,
                   sessionVars, toolVars>>

\* the tool ends (or cannot be started, or is killed by the timeout) and
\* execFile calls back
ToolExits(error, out) ==
    /\ adapter.pc = "running"
    /\ LET r == AdapterCallback(adapter.name, adapter.targetUrl, error, out)
       IN  adapter' = [adapter EXCEPT !.pc = "settled", !.error = error, !.stdout = out,
                                      !.settled = r.settled, !.findings = r.findings]
    /\ UNCHANGED <<routerVars, dedupVars, profileVars, customVars, licenseVars, bridgeVars,
                   sessionVars, toolVars>>

\* the backend has its findings; the next request may come
AdapterDone ==
    /\ adapter.pc = "settled"
    /\ adapter' = NoAdapterCall
    /\ UNCHANGED <<routerVars, dedupVars, profileVars, customVars, licenseVars, bridgeVars,
                   sessionVars, toolVars>>

AdapterNext ==
    \/ \E name \in AdapterNames, targetUrl \in TargetUrls : AdapterCall(name, targetUrl)
    \/ \E error \in BOOLEAN, out \in Stdouts : ToolExits(error, out)
    \/ AdapterDone

(***************************************************************************)
(* Specifications                                                          *)
(***************************************************************************)
\* every configuration of the kept scanners: each one enabled or disabled
Init == RouterInit(SUBSET ScannerNames) /\ DedupInit /\ ProfileInit /\ CustomInit /\ LicenseInit
    /\ BridgeInit({"key-a"}, {FALSE}) /\ SessionInit /\ ToolInit /\ AdapterInit

\* the default configuration: every scanner enabled
DefaultInit == RouterInit({ScannerNames}) /\ DedupInit /\ ProfileInit /\ CustomInit /\ LicenseInit
    /\ BridgeInit({"key-a"}, {FALSE}) /\ SessionInit /\ ToolInit /\ AdapterInit

Next == RouterNext

\* the router serving one request at a time
Spec == Init /\ [][Next]_vars

\* the router with the scheduling the runtime gives: a callback that is ready
\* runs, and a backend that has not stalled answers.  Nothing makes a
\* caller call or a stalled backend answer.
LiveSpec ==
    /\ Spec
    /\ WF_vars(ScanAllMerge)
    /\ WF_vars(ScanWithReturn)
    /\ \A b \in ScannerNames : WF_vars(BackendResponds(b) \/ BackendStalls(b))

\* scanAll with every scanner enabled, its backends settling in any order
OrderSpec == DefaultInit /\ [][OrderNext]_vars

\* deduplicateFindings on every list up to MaxLen
DedupSpec == DefaultInit /\ [][DedupNext]_vars

\* the profile manager on its own
ProfileSpec == DefaultInit /\ [][ProfileNext]_vars

\* the profile manager loading project overrides
CustomSpec == DefaultInit /\ [][CustomNext]_vars

\* the license client serving overlapping validate calls as time passes
LicenseSpec == DefaultInit /\ [][LicenseNext]_vars

\* the configuration of the bridge's Router: SCANNER_<NAME>_ENABLED leaves
\* the sast scanner enabled alone
BridgeEnabled == {"sast"}

\* a process started in any environment: with or without a key, with or
\* without a terminal on stdin
StartupInit ==
    /\ RouterInit({BridgeEnabled}) /\ DedupInit /\ ProfileInit /\ CustomInit /\ LicenseInit
    /\ BridgeInit(EnvKeys, BOOLEAN) /\ SessionInit /\ ToolInit /\ AdapterInit

\* main(), and then the bridge serving POST /api/scan one request at a time
BridgeSpec == StartupInit /\ [][BridgeNext]_vars

\* a gateway that main has started with a valid key
ServingInit ==
    /\ RouterInit({ScannerNames}) /\ DedupInit /\ ProfileInit /\ CustomInit /\ LicenseInit
    /\ SessionInit /\ ToolInit /\ AdapterInit
    /\ licenseKey = "key-a"
    /\ isTTY = FALSE
    /\ mainPc = "running"
    /\ mainValidation \in {[answer |-> a, result |-> ValidateResult(a)] : a \in RestValidAnswers}
    /\ bridgeUp = TRUE
    /\ stdioUp = TRUE
    /\ rest = NoRest
    /\ usage = NoUsage

\* the running bridge serving SSE sessions and POST /api/scan
SessionSpec == ServingInit /\ [][SessionNext]_vars

\* the server of one session answering tool, resource and prompt requests,
\* one at a time
ToolSpec == DefaultInit /\ [][ToolNext]_vars

\* the same server with two tool calls handled at the same time
OverlapSpec == DefaultInit /\ [][OverlapNext]_vars

SnapshotNext ==
    \/ \E name \in SnapshotTools : CallTool(FirstSlot, name, "", TRUE)
    \/ \E arg \in SnapshotProfiles : CallTool(SecondSlot, "set_profile", arg, TRUE)
    \/ \E answers \in AnswersFor(tcall[FirstSlot]) : ToolResumes(FirstSlot, answers)
    \/ \E body \in RestScanBodies : RestScan(body)
    \/ \E a \in RestValidAnswers : RestLicenseAnswers(a)
    \/ RestLicensed
    \/ ScanAllMerge
    \/ RestResponds
    \/ RestDone

\* the running bridge serving POST /api/scan while a session's server
\* scans and has its profile set
SnapshotSpec == ServingInit /\ [][SnapshotNext]_vars

\* a scanner backend's adapter called again and again
AdapterSpec == DefaultInit /\ [][AdapterNext]_vars


(***************************************************************************)
(* Vocabulary of the properties                                            *)
(***************************************************************************)
Finished == pc \in {"returned", "threw"}

\* the backend's RPC failed: no connection, a non-success status, or a body
\* that is not JSON
RpcFailed(b) ==
    \/ resp[b].kind = "neterr"
    \/ resp[b].kind = "http" /\ (~ResponseOk(resp[b]) \/ ~resp[b].json)

\* the backend answered 200 with JSON of some shape
RpcAnswered(b) == resp[b].kind = "http" /\ ResponseOk(resp[b]) /\ resp[b].json

\* the backend answered 200 with a well-formed ScanResult
RpcSucceeded(b) == RpcAnswered(b) /\ resp[b].body.shape = "scanresult"

\* w has the form  Scanner '<b>' unavailable: <reason>
FailureStatuses == {500}
FailureReasons(b) ==
    {FetchFailed, JsonSyntaxError}
    \cup {"Scanner " \o b \o " returned " \o ToString(st) : st \in FailureStatuses}
NamesBackend(w, b) == \E m \in FailureReasons(b) : w = "Scanner '" \o b \o "' unavailable: " \o m
IsUnavailableWarning(w) == \E b \in ScannerNames : NamesBackend(w, b)

\* what the succeeding backends sent, in dispatch order
RECURSIVE SentFindings(_)
SentFindings(names) ==
    IF names = <<>> THEN <<>>
    ELSE (IF RpcSucceeded(Head(names)) THEN resp[Head(names)].body.findings ELSE <<>>)
         \o SentFindings(Tail(names))

RECURSIVE SentWarnings(_)
SentWarnings(names) ==
    IF names = <<>> THEN <<>>
    ELSE (IF RpcSucceeded(Head(names)) THEN resp[Head(names)].body.warnings ELSE <<>>)
         \o SentWarnings(Tail(names))

RemoveAt(s, i) == SubSeq(s, 1, i - 1) \o SubSeq(s, i + 1, Len(s))

\* a finished scanAll in which backend b's RPC failed and every other
\* dispatched backend succeeded
OneFailedRestSucceeded(b) ==
    /\ req.kind = "scanAll"
    /\ Finished
    /\ b \in Range(dispatched)
    /\ RpcFailed(b)
    /\ \A o \in Range(dispatched) \ {b} : RpcSucceeded(o)

\* (file, line, cwe-or-title)
Triple(f) == <<f.file, f.line, CweOrTitle(f)>>

\* the first finding of each (file, line, cwe-or-title), in insertion order
FirstOfEachTriple(findings) ==
    LET firsts == {i \in 1..Len(findings) :
                      \A j \in 1..(i - 1) : Triple(findings[j]) # Triple(findings[i])}
        RECURSIVE Pick(_)
        Pick(i) == IF i > Len(findings) THEN <<>>
                   ELSE (IF i \in firsts THEN <<findings[i]>> ELSE <<>>) \o Pick(i + 1)
    IN  Pick(1)

\* a is b with some elements left out
RECURSIVE IsSubsequence(_, _)
IsSubsequence(a, b) ==
    IF a = <<>> THEN TRUE
    ELSE IF b = <<>> THEN FALSE
    ELSE IF Head(a) = Head(b) THEN IsSubsequence(Tail(a), Tail(b))
    ELSE IsSubsequence(a, Tail(b))

(***************************************************************************)
(* Properties                                                              *)
(***************************************************************************)

\* C1 (as stated): when exactly one dispatched backend's RPC fails and the
\* others succeed, scanAll returns the deduplicated concatenation of the
\* succeeding backends' findings and warnings holds exactly one entry, which
\* names the failed backend.
C1_ExactlyOneWarning ==
    \A b \in ScannerNames :
        OneFailedRestSucceeded(b) =>
            /\ pc = "returned"
            /\ result.findings = DeduplicateFindings(SentFindings(dispatched))
            /\ Len(result.warnings) = 1
            /\ NamesBackend(result.warnings[1], b)

\* C1 (amended): ... and warnings holds exactly one entry naming the failed
\* backend; every other entry is a warning a succeeding backend sent in its
\* own result, all of them, in dispatch order.
C1_OneUnavailableWarning ==
    \A b \in ScannerNames :
        OneFailedRestSucceeded(b) =>
            /\ pc = "returned"
            /\ result.findings = DeduplicateFindings(SentFindings(dispatched))
            /\ \E i \in 1..Len(result.warnings) :
                  /\ NamesBackend(result.warnings[i], b)
                  /\ \A j \in 1..Len(result.warnings) :
                        IsUnavailableWarning(result.warnings[j]) => j = i
                  /\ RemoveAt(result.warnings, i) = SentWarnings(dispatched)

C1_Witness ==
    /\ \E b \in ScannerNames : OneFailedRestSucceeded(b)
    /\ pc = "returned"
    /\ Len(dispatched) = 3
    /\ Len(SentFindings(dispatched)) > Len(result.findings)
    /\ Len(result.findings) >= 2
    /\ Len(result.warnings) >= 2

\* C2: scanAll never fails, whatever each backend does, and the findings of
\* the backends that answered well are in its result.
C2_ScanAllNeverFails ==
    (req.kind = "scanAll" /\ Finished) =>
        /\ pc = "returned"
        /\ \A b \in Range(dispatched) :
              RpcSucceeded(b) =>
                 \A i \in 1..Len(resp[b].body.findings) :
                    \E k \in 1..Len(result.findings) :
                       Triple(result.findings[k]) = Triple(resp[b].body.findings[i])

C4_ScanAllEventuallyReturns ==
    (req.kind = "scanAll" /\ pc = "waiting") ~> Finished

\* C5: while scanAll waits every selected backend's call has been issued, and
\* when scanAll has finished every one of them has settled.
C5_WaitsForAll ==
    req.kind = "scanAll" =>
        /\ pc = "waiting" => \A b \in Range(dispatched) : call[b] # "none"
        /\ Finished => \A b \in Range(dispatched) : call[b] \in {"fulfilled", "rejected"}
        /\ \A b \in ScannerNames : call[b] # "none" => b \in Range(dispatched)

C5_Witness ==
    /\ req.kind = "scanAll"
    /\ pc = "returned"
    /\ Len(dispatched) = 3
    /\ RpcFailed(dispatched[1])
    /\ RpcSucceeded(dispatched[3])

\* C6: of the findings with equal (file, line, cwe-or-title) exactly the
\* first-inserted one survives, and the survivors keep their insertion order.
C6_FirstInsertedSurvives ==
    dPc # "collect" =>
        /\ IsSubsequence(dOut, allFindings)
        /\ \A i, j \in 1..Len(allFindings) :
              (i < j /\ Triple(allFindings[i]) = Triple(allFindings[j])
                     /\ \A h \in 1..(i - 1) : Triple(allFindings[h]) # Triple(allFindings[i]))
              => \E k \in 1..Len(dOut) :
                    /\ dOut[k] = allFindings[i]
                    /\ \A m \in 1..Len(dOut) :
                          Triple(dOut[m]) = Triple(allFindings[i]) => m = k

\* C7: a finding is removed only if an earlier one has its file, its line and
\* its cwe-or-title, so every (file, line, cwe-or-title) of the input is still
\* there in the output.
C7_OnlyExactMatchesRemoved ==
    dPc # "collect" =>
        \A i \in 1..Len(allFindings) :
            \E k \in 1..Len(dOut) : Triple(dOut[k]) = Triple(allFindings[i])

\* C8: dedup(L ++ L) = dedup(L) and dedup(dedup(L)) = dedup(L).
C8_Idempotent ==
    dPc = "again" => (dDouble = dOut /\ dTwice = dOut)

C8_Witness ==
    /\ dPc = "again"
    /\ Len(allFindings) = 3
    /\ Len(dOut) = 2
    /\ allFindings[1] # allFindings[3]
    /\ FindingKey(allFindings[1]) = FindingKey(allFindings[3])

\* C9: scanWith on an enabled backend returns that client's result as it is,
\* after one call to that backend; on any other name it returns zero findings,
\* duration_ms 0 and no warnings, and calls no backend.
C9_ScanWith ==
    (req.kind = "scanWith" /\ pc = "returned") =>
        IF req.name \in Range(clients)
        THEN /\ result = settled[req.name]
             /\ RpcAnswered(req.name) => result = resp[req.name].body
             /\ \A b \in ScannerNames : call[b] # "none" <=> b = req.name
        ELSE /\ result.shape = "scanresult"
             /\ result.findings = <<>>
             /\ result.duration_ms = 0
             /\ result.warnings = <<>>
             /\ \A b \in ScannerNames : call[b] = "none"

C9_Witness ==
    /\ req.kind = "scanWith"
    /\ pc = "returned"
    /\ req.name \in Range(clients)
    /\ Len(result.findings) = 2
    /\ FindingKey(result.findings[1]) = FindingKey(result.findings[2])
    /\ result.warnings # <<>>

\* C10: setActive with a name that listProfiles() does not hold throws, the
\* message lists the known names, and getActive() is what it was.
C10_UnknownNameRejected ==
    (pmLast.op = "setActive" /\ pmLast.arg \notin Range(ListProfiles(profileKeys))) =>
        /\ pmLast.threw
        /\ pmLast.message = "Unknown profile: " \o pmLast.arg
                            \o ". Available: standard, hardened, owasp, soc2, pci-dss, hipaa"
        /\ GetActiveValue(profileKeys, activeProfile) = pmLast.before

(***************************************************************************)
(* loadCustomProfile                                                       *)
(***************************************************************************)
\* the merge as described: an override field that is an object merges key by
\* key onto the base's object, any other override field replaces, and a base
\* field the override does not mention stays
RECURSIVE MergedKeyByKey(_, _)
MergedKeyByKey(base, override) ==
    Obj([key \in DOMAIN base.kids \cup DOMAIN override.kids |->
            IF key \notin DOMAIN override.kids THEN base.kids[key]
            ELSE IF /\ IsPlainObject(override.kids[key])
                    /\ Has(base, key)
                    /\ IsPlainObject(base.kids[key])
                 THEN MergedKeyByKey(base.kids[key], override.kids[key])
                 ELSE override.kids[key]])

\* the file declares a base that is a registered profile
ExtendsRegistered(file) ==
    /\ file.exists
    /\ ExtendsOf(file.yaml) \in Range(ListProfiles(profileKeys))

\* the file declares a base that is not a registered profile
ExtendsUnknown(file) ==
    /\ file.exists
    /\ ExtendsOf(file.yaml) # ""
    /\ ExtendsOf(file.yaml) \notin Range(ListProfiles(profileKeys))

\* C11: loadCustomProfile on a file that extends a registered profile
\* registers under 'custom' the base with the file's overrides merged in:
\* object-valued override fields merged key by key at every depth, array and
\* scalar override fields replacing, unmentioned base fields kept, the name
\* 'custom' and no 'extends' field.
C11_DeepMerge ==
    [][\A file \in ProfileFiles :
          (LoadCustomProfile(file) /\ ExtendsRegistered(file)) =>
             /\ loadLast'.outcome = "profile"
             /\ "custom" \in Range(profileKeys')
             /\ profiles'["custom"] = loadLast'.profile
             /\ profiles'["custom"] =
                  SetKey(MergedKeyByKey(profiles[ExtendsOf(file.yaml)],
                                        DeleteKey(file.yaml, "extends")),
                         "name", Val("custom"))
             /\ ~Has(profiles'["custom"], "extends")]_vars

\* C12: loadCustomProfile with no override file returns no profile and
\* changes neither the registry nor the active profile; with a base that is
\* not a registered profile it fails and registers nothing; and in every
\* case the active profile and every entry other than 'custom' stay as they
\* were.
C12_LoadFrame ==
    [][\A file \in ProfileFiles :
          LoadCustomProfile(file) =>
             /\ activeProfile' = activeProfile
             /\ \A n \in DOMAIN profiles \ {"custom"} :
                   n \in DOMAIN profiles' /\ profiles'[n] = profiles[n]
             /\ DOMAIN profiles' \subseteq DOMAIN profiles \cup {"custom"}
             /\ ~file.exists =>
                   /\ loadLast'.outcome = "null"
                   /\ profiles' = profiles
                   /\ profileKeys' = profileKeys
             /\ ExtendsUnknown(file) =>
                   /\ loadLast'.outcome = "threw"
                   /\ profiles' = profiles
                   /\ profileKeys' = profileKeys]_vars

(***************************************************************************)
(* LicenseClient.validate                                                  *)
(***************************************************************************)
\* the server answered `key` with a valid verdict less than one TTL ago
WithinTtl(key) ==
    /\ verdictAt[key] # Never
    /\ now - verdictAt[key][1] < CACHE_TTL_MS

\* C13: a validate call made within one TTL of the key's last valid verdict
\* issues no remote call and returns that verdict; a call made when no valid
\* verdict was received, or one TTL or more after it, issues a remote call.
C13_OneRemoteCallPerTtl ==
    [][\A c \in Callers, key \in LicenseKeys :
          ValidateCall(c, key) =>
             IF WithinTtl(key)
             THEN /\ vcall'[c].pc = "returned"
                  /\ ~vcall'[c].fetched
                  /\ vcall'[c].result = ValidVerdict
             ELSE /\ vcall'[c].pc = "fetching"
                  /\ vcall'[c].fetched]_vars

\* one caller was answered from the cache, and after the TTL ran out the
\* other caller's call for the same key went to the server
C13_Witness ==
    \E c1, c2 \in Callers :
       /\ vcall[c1].pc = "returned" /\ ~vcall[c1].fetched /\ vcall[c1].result.valid
       /\ vcall[c2].pc = "fetching" /\ vcall[c2].key = vcall[c1].key
       /\ verdictAt[vcall[c1].key] # Never
       /\ now - verdictAt[vcall[c1].key][1] >= CACHE_TTL_MS

\* every stored verdict is a valid one
CacheHoldsValidOnly == \A k \in LicenseKeys : licCache[k].has => licCache[k].result.valid

\* a fetch that ends in anything but a valid verdict gives an invalid result
\* and leaves the cache as it was
InvalidNotStored ==
    \A c \in Callers, a \in LicenseAnswers :
       (ValidateAnswer(c, a) /\ ~Stores(a)) =>
          /\ ~vcall'[c].result.valid
          /\ licCache' = licCache

\* C14: the cache holds valid verdicts only, an invalid outcome (network
\* error, timeout, non-success status, valid=false) is not stored, and the
\* validate call that follows an invalid verdict for a key always issues a
\* remote call.
C14_InvalidForcesRemoteCall ==
    /\ []CacheHoldsValidOnly
    /\ [][/\ InvalidNotStored
          /\ \A c \in Callers, key \in LicenseKeys :
                (ValidateCall(c, key) /\ lastVerdict[key] = "invalid") =>
                   vcall'[c].pc = "fetching"]_vars

\* C14, amended: as above, but the call that follows an invalid verdict
\* issues a remote call unless an overlapping call stored a valid verdict
\* for the key less than one TTL ago.
C14_InvalidNeverStored ==
    /\ []CacheHoldsValidOnly
    /\ [][/\ InvalidNotStored
          /\ \A c \in Callers, key \in LicenseKeys :
                (ValidateCall(c, key) /\ lastVerdict[key] = "invalid" /\ ~WithinTtl(key)) =>
                   vcall'[c].pc = "fetching"]_vars

\* a call ended in an invalid verdict with nothing stored for its key, and
\* the other caller's call for that key is at the server
C14_Witness ==
    \E c1, c2 \in Callers :
       /\ vcall[c1].pc = "returned" /\ vcall[c1].fetched /\ ~vcall[c1].result.valid
       /\ lastVerdict[vcall[c1].key] = "invalid"
       /\ ~licCache[vcall[c1].key].has
       /\ vcall[c2].pc = "fetching" /\ vcall[c2].key = vcall[c1].key

(***************************************************************************)
(* POST /api/scan and the license                                          *)
(***************************************************************************)
\* the handler's validate call went to the server and the fetch was rejected
\* or timed out
LicenseUnreachable(v) == v.fetched /\ v.answer.kind \in {"neterr", "timeout"}

\* the handler's validate call went to the server and was answered valid=false
LicenseExplicitlyInvalid(v) ==
    /\ v.fetched
    /\ AnswerParsed(v.answer)
    /\ ~v.answer.verdict.valid

\* C15: a POST /api/scan whose license check could not reach the license
\* server (nothing cached) is not answered 403; its scan is dispatched.
C15_OfflineMode ==
    (rest.pc \in {"scanning", "done"} /\ LicenseUnreachable(rest.validation)) =>
        /\ rest.status # 403
        /\ rest.body.kind = "json-object" => rest.scanned

\* C16: a POST /api/scan whose license check was answered valid=false is
\* answered 403, no backend is dispatched to and no usage report is sent.
C16_InvalidLicenseRejected ==
    (rest.pc \in {"scanning", "done"} /\ LicenseExplicitlyInvalid(rest.validation)) =>
        /\ rest.pc = "done"
        /\ rest.status = 403
        /\ ~rest.scanned
        /\ pc = "idle"
        /\ dispatched = <<>>
        /\ call = NoCalls
        /\ usage = NoUsage

C16_Witness ==
    /\ rest.pc = "done"
    /\ LicenseExplicitlyInvalid(rest.validation)
    /\ rest.status = 403

\* C17: the 200 response of POST /api/scan carries scanAll's result and is
\* sent while the usage report is still in flight; however the report ends,
\* the response stays as sent, and one report at most is issued per request.
C17_UsageNeverAffectsResponse ==
    /\ [](/\ (rest.pc = "done" /\ rest.status = 200) =>
                /\ rest.usageAtSend = "pending"
                /\ rest.sent = result
                /\ usage.reports = 1
          /\ usage.reports <= 1)
    /\ [][\A outcome \in UsageOutcomes :
             UsageSettles(outcome) =>
                /\ rest' = rest
                /\ usage'.state = outcome
                /\ usage'.reports = usage.reports]_vars

\* the scan was answered 200 and its usage report was rejected afterwards
C17_Witness ==
    /\ rest.pc = "done"
    /\ rest.status = 200
    /\ rest.sent = result
    /\ usage.state = "rejected"

(***************************************************************************)
(* Startup                                                                 *)
(***************************************************************************)
\* C18: the HTTP bridge and the stdio server are started only after validate
\* answered valid=true for a non-empty key; with an empty key, an invalid
\* verdict or an unreachable license server, main exits and starts neither.
C18_NoServingWithoutLicense ==
    /\ (bridgeUp \/ stdioUp) =>
          /\ licenseKey # ""
          /\ Stores(mainValidation.answer)
          /\ mainValidation.result.valid
    /\ (mainPc # "start" /\ licenseKey = "") => mainPc = "exited"
    /\ (mainValidation.answer.kind # "none" /\ ~Stores(mainValidation.answer)) =>
          mainPc = "exited"
    /\ mainPc = "exited" => ~bridgeUp /\ ~stdioUp

\* a process with a valid key and no terminal on stdin serves on both
C18_Witness ==
    /\ mainPc = "running"
    /\ Stores(mainValidation.answer)
    /\ bridgeUp
    /\ stdioUp

(***************************************************************************)
(* Sessions                                                                *)
(***************************************************************************)
\* the handler of POST /api/scan builds its ScanRequest in this step
RestBuildsRequest == rest.pc = "license" /\ rest'.pc = "scanning"

\* this step is a scan_project call handled in open session s
ToolBuildsRequest(s) ==
    /\ sess[s] = "open"
    /\ PostMessage(s, [tool |-> "scan_project", profile |-> ""])

\* C19: once set_profile(p) has succeeded in one session, every ScanRequest
\* built afterwards, by POST /api/scan or by a tool call in any open session,
\* carries profile p.
C19_SharedActiveProfile ==
    [][selected.by # "" =>
          /\ RestBuildsRequest => rest'.profile.name = selected.profile
          /\ \A s \in SessionIds :
                ToolBuildsRequest(s) => post'.profile.name = selected.profile]_vars

\* the sessions whose connection is being opened or is open
OpenSessions == {s \in SessionIds : sess[s] \in {"connecting", "open"}}

\* C20: the registry holds exactly the ids of the sessions that are open
\* (added on open, removed on close and when connecting fails), and a POST
\* /messages with no sessionId or one not in the registry is answered 400
\* and reaches no session.
C20_RegistryMatchesOpenSessions ==
    /\ [](sseTransports = OpenSessions)
    /\ [][\A sessionId \in PostedIds, message \in SessionMessages :
             (PostMessage(sessionId, message)
                /\ (sessionId = "" \/ sessionId \notin sseTransports)) =>
                /\ post'.status = 400
                /\ post'.reached = ""
                /\ managers' = managers]_vars

(***************************************************************************)
(* Request bodies of POST /api/scan                                        *)
(***************************************************************************)
\* the posted body is not a JSON object: oversized, unparsable, or a JSON
\* number, string, boolean or null
BodyNotObject(body) == body.kind \notin {"none", "json-object"}

\* 413 for a body over 5 MB, 400 for every other body that is not an object
RejectionStatus(body) == IF body.kind = "too-large" THEN 413 ELSE 400

\* the handler's license check let the request through
LicenseAccepted == rest.pc \in {"scanning", "done"} /\ rest.validation.result.valid

\* C23: a licensed POST /api/scan whose body is over 5 MB is answered 413,
\* one whose body is not JSON or is JSON but not an object (number, string,
\* boolean, null) is answered 400; none of them is answered 500 and for none
\* is a backend dispatched to.
C23_BodyRejected ==
    (LicenseAccepted /\ BodyNotObject(rest.body)) =>
        /\ rest.pc = "done"
        /\ rest.status = RejectionStatus(rest.body)
        /\ ~rest.scanned
        /\ dispatched = <<>>

\* C27: a POST /api/scan whose body is malformed or oversized is answered
\* 400 or 413 whatever the license check would say, and while it is handled
\* the license server is not contacted and no backend is dispatched to.
C27_RejectedBeforeLicense ==
    (rest.pc # "idle" /\ rest.body.kind \in {"too-large", "not-json"}) =>
        /\ ~vcall[RestCaller].fetched
        /\ ~rest.validation.fetched
        /\ dispatched = <<>>
        /\ rest.pc = "done" => rest.status = RejectionStatus(rest.body)

(***************************************************************************)
(* Completion order of the backends of one scanAll                         *)
(***************************************************************************)
\* the backends scanAll dispatched to, in registration order
InRegistrationOrder == SelectSeq(clients, LAMBDA b : b \in Range(dispatched))

\* what each backend's scan contributes, taken from its answer alone
RECURSIVE Contributions(_)
Contributions(names) ==
    IF names = <<>> THEN <<>>
    ELSE <<ScannerClientScan(Head(names), resp[Head(names)])>> \o Contributions(Tail(names))

\* position in the registration order of the first backend whose
\* contribution holds a finding of g's key
FirstReporter(g) ==
    CHOOSE i \in 1..Len(InRegistrationOrder) :
        /\ \E f \in Range(Contributions(InRegistrationOrder)[i].findings) :
              FindingKey(f) = FindingKey(g)
        /\ \A j \in 1..(i - 1) :
              \A f \in Range(Contributions(InRegistrationOrder)[j].findings) :
                 FindingKey(f) # FindingKey(g)

\* two backends of a returned scanAll settled in the reverse of their
\* registration order
SettledOutOfOrder ==
    \E i, j \in 1..Len(completed) :
        /\ i < j
        /\ \E m, n \in 1..Len(clients) :
              clients[m] = completed[j] /\ clients[n] = completed[i] /\ m < n

\* C26: the result of a returned scanAll is fixed by the backends' answers
\* and their registration order: findings and warnings are those of the
\* backends concatenated in registration order (findings deduplicated), in
\* whatever order the backends completed, and each surviving finding is the
\* one reported by the earliest-registered backend reporting its key.
C26_CompletionOrderIrrelevant ==
    (pc = "returned" /\ req.kind = "scanAll") =>
        LET values == Contributions(InRegistrationOrder)
        IN  /\ result.findings = DeduplicateFindings(ConcatFindings(values))
            /\ result.warnings = ConcatWarnings(values)
            /\ \A k \in 1..Len(result.findings) :
                  result.findings[k] \in Range(values[FirstReporter(result.findings[k])].findings)

\* a scanAll returned after two backends reporting findings of one key with
\* different titles settled against their registration order
C26_Witness ==
    /\ pc = "returned"
    /\ req.kind = "scanAll"
    /\ SettledOutOfOrder
    /\ \E a, b \in Range(dispatched) :
          /\ a # b
          /\ RpcSucceeded(a) /\ RpcSucceeded(b)
          /\ \E f \in Range(resp[a].body.findings), g \in Range(resp[b].body.findings) :
                FindingKey(f) = FindingKey(g) /\ f # g

(***************************************************************************)
(* Tools, resources and prompts of one session                             *)
(***************************************************************************)
\* this step answers a request
Answered == tout' # tout

\* the requests that only read
ReadOnlyRequests == ReadOnlyTools \cup {"set_profile", "resources/read", "prompts/get"}

\* C21: when scan_project completes the cache is exactly that scan's
\* findings; when a single-backend tool completes the cache is what it was
\* followed by that call's findings; get_findings, get_security_score,
\* suggest_fix, set_profile, resource reads and prompt requests leave the
\* cache as it is and start no backend call; nothing else writes the cache.
C21_CacheUpdates ==
    [][/\ (Answered /\ tout'.kind = "result" /\ tout'.request = "scan_project") =>
              lastFindings' = tout'.findings
       /\ (Answered /\ tout'.kind = "result" /\ tout'.request \in SingleBackendTools) =>
              lastFindings' = lastFindings \o tout'.findings
       /\ (Answered /\ tout'.request \in ReadOnlyRequests) =>
              /\ lastFindings' = lastFindings
              /\ tout'.dispatched = <<>>
              /\ tcall' = tcall
       /\ (~Answered \/ tout'.kind # "result") => lastFindings' = lastFindings]_vars

\* a scan_project has replaced a cache that held other findings, and a
\* single-backend tool has then extended it
C21_Witness ==
    /\ tout.request \in SingleBackendTools
    /\ tout.kind = "result"
    /\ tout.findings # <<>>
    /\ tout.before = <<GC, GM>>
    /\ lastFindings = <<GC, GM>> \o tout.findings

\* the URIs the server has a resource for
KnownUris ==
    {"safeweave://profiles", "safeweave://findings/summary", "safeweave://config"}
    \cup {"safeweave://compliance/" \o profileKeys[i] : i \in 1..Len(profileKeys)}
KnownPrompts == {"security_review", "threat_model", "secure_code_guide"}

\* an error that is returned as a value (isError) or as a not-found error
\* response, with the active profile and the cache as they were
ErrorValue(kind) ==
    /\ tout'.kind = kind
    /\ activeProfile' = activeProfile
    /\ lastFindings' = lastFindings
    /\ tcall' = tcall

\* C22: an unknown tool name, set_profile with an unregistered name and
\* suggest_fix with an id that is not in the cache are answered with an
\* isError result, an unknown resource URI or prompt name with a not-found
\* error; none of them changes the active profile or the cache, and the
\* server goes on serving.
C22_ErrorsAreValues ==
    [][Answered =>
          /\ tout'.request \notin (ToolNames \ {"no_such_tool"})
                                  \cup {"resources/read", "prompts/get"} => ErrorValue("isError")
          /\ (tout'.request = "set_profile" /\ tout'.arg \notin Range(profileKeys)) =>
                ErrorValue("isError")
          /\ (tout'.request = "suggest_fix" /\ ~HasFinding(lastFindings, tout'.arg)) =>
                ErrorValue("isError")
          /\ (tout'.request = "resources/read" /\ tout'.arg \notin KnownUris) =>
                ErrorValue("threw")
          /\ (tout'.request = "prompts/get" /\ tout'.arg \notin KnownPrompts) =>
                ErrorValue("threw")]_vars

\* the eight backend categories
BackendCategories ==
    {"sast", "deps", "secrets", "iac", "container", "dast", "license", "posture"}

\* C24: with the default configuration scan_project dispatches to all eight
\* backends, posture included, and each single-backend tool makes exactly
\* one scan call, to its own backend.
C24_AllBackendsReachable ==
    /\ \A slot \in ToolSlots :
          (tcall[slot].pc = "waiting" /\ tcall[slot].tool = "scan_project") =>
              Range(tcall[slot].dispatched) = BackendCategories
    /\ \A slot \in ToolSlots :
          (tcall[slot].pc = "waiting" /\ tcall[slot].tool \in SingleBackendTools) =>
              tcall[slot].dispatched = <<ToolBackend(tcall[slot].tool)>>
    /\ (tout.request \in SingleBackendTools /\ tout.kind = "result") =>
          tout.dispatched = <<ToolBackend(tout.request)>>

\* how many of the findings have the severity
CountOf(findings, severity) ==
    Cardinality({i \in 1..Len(findings) : findings[i].severity = severity})

\* max(0, 100 - (25 critical + 15 high + 8 medium + 3 low + 0 info))
ExpectedScore(findings) ==
    LET d == 25 * CountOf(findings, "critical") + 15 * CountOf(findings, "high")
             + 8 * CountOf(findings, "medium") + 3 * CountOf(findings, "low")
             + 0 * CountOf(findings, "info")
    IN  IF 100 - d > 0 THEN 100 - d ELSE 0

ExpectedStatus(findings) ==
    CASE findings = <<>> -> "no_findings"
      [] findings # <<>> /\ ExpectedScore(findings) >= 80 -> "good"
      [] findings # <<>> /\ ExpectedScore(findings) \in 50..79 -> "needs_attention"
      [] OTHER -> "critical"

\* C30: get_security_score gives an integer from 0 to 100 that is
\* max(0, 100 - (25 critical + 15 high + 8 medium + 3 low + 0 info)) over the
\* cached findings, with status no_findings exactly for the empty cache,
\* else good from 80, needs_attention from 50 to 79, critical below 50; and
\* no step other than a scan_project completing raises the score.
C30_SecurityScore ==
    /\ [](tout.request = "get_security_score" =>
             /\ tout.score.score \in 0..100
             /\ tout.score.score = ExpectedScore(tout.before)
             /\ tout.score.status = ExpectedStatus(tout.before)
             /\ tout.before = lastFindings)
    /\ [][~(Answered /\ tout'.request = "scan_project") =>
             ExpectedScore(lastFindings') <= ExpectedScore(lastFindings)]_vars

\* the score of a cache whose deductions exceed 100 was asked for
C30_Witness ==
    /\ tout.request = "get_security_score"
    /\ Deductions(tout.before) > 100
    /\ tout.score = [score |-> 0, status |-> "critical"]

(***************************************************************************)
(* Requests handled at the same time                                       *)
(***************************************************************************)
\* name and rules of the profile registered under the name
ExpectedSnapshot(active) == [name |-> active, rules |-> active]

\* C28: the ScanRequest of a tool call or of a REST scan carries the name
\* and the rules of the profile that was active when the call began, and
\* nothing that happens while the scan is in flight, a completed
\* set_profile included, changes what was dispatched.
C28_ProfileSnapshot ==
    /\ [](\A slot \in ToolSlots :
             tcall[slot].pc = "waiting" =>
                tcall[slot].profile = ExpectedSnapshot(tcall[slot].activeAtStart))
    /\ [](rest.scanned => rest.profile = [kind |-> "profile", name |-> rest.activeAtStart])
    /\ [][/\ \A slot \in ToolSlots :
                tcall[slot].pc = "waiting" =>
                   /\ tcall'[slot].pc = "waiting" =>
                         /\ tcall'[slot].profile = tcall[slot].profile
                         /\ tcall'[slot].dispatched = tcall[slot].dispatched
                   /\ tcall'[slot].pc = "idle" =>
                         /\ tout'.profile = tcall[slot].profile
                         /\ tout'.dispatched = tcall[slot].dispatched
          /\ (rest.pc = "scanning" /\ rest'.pc # "idle") => rest'.profile = rest.profile]_vars

\* set_profile(hardened) was answered while a tool scan begun under the
\* standard profile and a REST scan were in flight
C28_Witness ==
    /\ tcall[FirstSlot].pc = "waiting"
    /\ tcall[FirstSlot].activeAtStart = "standard"
    /\ tcall[FirstSlot].profile.name = "standard"
    /\ tout.request = "set_profile"
    /\ tout.kind = "result"
    /\ activeProfile = "hardened"
    /\ rest.pc = "scanning"

\* a is the beginning of b
IsPrefix(a, b) == Len(a) <= Len(b) /\ SubSeq(b, 1, Len(a)) = a

\* this step is a scan_project completing
ProjectCompletes == Answered /\ tout'.request = "scan_project" /\ tout'.kind = "result"

\* C29: with two tool calls in flight at the same time, every single-backend
\* call that completes adds its findings to the cache as it is at that
\* moment, and what is in the cache stays there until a scan_project
\* completes: after both calls the cache holds the findings of both, in
\* whatever order their backends answered.
C29_NoLostAppend ==
    [][~ProjectCompletes =>
          /\ IsPrefix(lastFindings, lastFindings')
          /\ (Answered /\ tout'.kind = "result") =>
                lastFindings' = lastFindings \o tout'.findings]_vars

\* the second of two overlapping single-backend calls has completed: the
\* cache holds the findings the first one appended, then its own
C29_Witness ==
    /\ \A slot \in ToolSlots : tcall[slot].pc = "idle"
    /\ tout.request \in SingleBackendTools
    /\ tout.kind = "result"
    /\ tout.peerAppended
    /\ tout.before = <<GC, GC, GC>>
    /\ tout.findings = <<GM>>
    /\ lastFindings = <<GC, GC, GC, GM>>

(***************************************************************************)
(* Scanner adapters                                                        *)
(***************************************************************************)
\* the tool gave an error and printed nothing
ErrorWithoutOutput == adapter.error /\ adapter.stdout.kind = "none"

\* what the tool printed is not valid JSON
OutputNotJson == adapter.stdout.kind \in {"text", "mixed"}

\* what the tool printed holds no result
ResultSetEmpty ==
    \/ adapter.stdout.kind = "blank"
    \/ adapter.stdout.kind = "results" /\ adapter.stdout.entries = <<>>

\* C25: runTrivyVuln, runTrivyMisconfig and runNuclei never reject; each
\* resolves to an empty list when the tool gives an error with no output,
\* when its output is not valid JSON and when the result set is empty, and
\* runNuclei without a target_url resolves to an empty list without running
\* the tool.
C25_AdaptersNeverFail ==
    adapter.pc = "settled" =>
        /\ adapter.settled = "resolved"
        /\ (ErrorWithoutOutput \/ OutputNotJson \/ ResultSetEmpty) => adapter.findings = <<>>
        /\ (adapter.name = "runNuclei" /\ adapter.targetUrl = "") =>
              ~adapter.ran /\ adapter.findings = <<>>
        /\ (adapter.name # "runNuclei" \/ adapter.targetUrl # "") => adapter.ran

\* an adapter has settled after its tool could not be started
C25_Witness ==
    /\ adapter.pc = "settled"
    /\ adapter.ran
    /\ ErrorWithoutOutput
    /\ adapter.settled = "resolved"
    /\ adapter.findings = <<>>
====
